---------------------------- MODULE Spec2Model ----------------------------
(***************************************************************************)
(* A model of the order-fulfilment core of eshop-ddd:                      *)
(*   - the Order aggregate's lifecycle (Order.ts),                         *)
(*   - the Inventory value object and the Product aggregate's inventory    *)
(*     operations (Inventory.ts, Product.ts),                              *)
(*   - InventoryService's batch operations (InventoryService.ts),          *)
(*   - CreateOrderCommand.execute, the checkout saga, run by concurrent    *)
(*     requests, and UpdateOrderStatusCommand.execute cancelling the order *)
(*     of a finished checkout (CreateOrderCommand.ts),                     *)
(*   - Money, OrderItem, OrderPricingService and the amounts of the Order  *)
(*     constructor, as functions of their arguments,                       *)
(*   - OrderNumber.generate with the unique index of the orders            *)
(*     collection, validateInventoryAvailability as written, and the       *)
(*     inventory operations of a single Product, each on its own.          *)
(*                                                                         *)
(* Reading of the source.  Every component is modelled from its own code.  *)
(* Enum members are model values named by their key (ProductStatus.ACTIVE  *)
(* is "ACTIVE"), so InventoryService.ts:61, which spells the member as the *)
(* literal 'ACTIVE', and Product.ts, which writes ProductStatus.ACTIVE,    *)
(* denote the same status in the checkout; the status test as it is       *)
(* written, on the enum's string values, is validateInventoryAvailability  *)
(* below, checked on its own in SpecValidate.  InventoryService.ts:73      *)
(* getAvailable() is the inventory's available quantity                    *)
(* (Inventory.getAvailableQuantity).                                       *)
(* Repositories are modelled at their interface: findById returns a fresh  *)
(* copy of the stored document (or null), save overwrites the whole stored *)
(* document, and either call may fail.  Every await is a step boundary:    *)
(* the code between two awaits runs atomically (one JavaScript thread).    *)
(***************************************************************************)
EXTENDS Integers, Sequences, FiniteSets, TLC

(***************************************************************************)
(* Bounds of the model.                                                    *)
(***************************************************************************)
MaxClock == 2
MaxBulk == 6
MaxEvents == 3
MaxOrders == 3
MaxQty == 2
Stock == 1

(***************************************************************************)
(* Order: the enums OrderStatus, PaymentStatus and ShippingStatus.         *)
(***************************************************************************)
OrderStatus ==
  {"PENDING", "PAID", "PROCESSING", "SHIPPED", "DELIVERED", "CANCELLED", "REFUNDED", "COMPLETED"}

PaymentStatus == {"PENDING", "PROCESSING", "COMPLETED", "FAILED", "CANCELLED", "REFUNDED"}

ShippingStatus == {"PENDING", "PREPARING", "SHIPPED", "IN_TRANSIT", "DELIVERED", "EXCEPTION"}

\* paidAt?, shippedAt?, deliveredAt? not set yet; clock values start at 1.
Undefined == 0

(***************************************************************************)
(* Order aggregate (Order.ts).  A method returns the order it leaves and   *)
(* whether it threw; statements are applied in the order of the code, so a *)
(* throw keeps whatever was assigned before it.  Error messages are the    *)
(* source's, in English: SANY reads ASCII strings only.                    *)
(***************************************************************************)
Returned(o) == [order |-> o, threw |-> FALSE, error |-> ""]

Thrown(o, msg) == [order |-> o, threw |-> TRUE, error |-> msg]

addDomainEvent(o, e) == [o EXCEPT !.events = Append(@, e)]

markEventsAsCommitted(o) == [o EXCEPT !.events = << >>]

OrderCreate ==
  addDomainEvent(
    [status |-> "PENDING", paymentStatus |-> "PENDING", shippingStatus |-> "PENDING",
     paidAt |-> Undefined, shippedAt |-> Undefined, deliveredAt |-> Undefined,
     events |-> << >>],
    "OrderCreated")

\* pay that leaves paymentStatus as it was.
pay_keepsPaymentStatus(o, now) ==
  IF o.status # "PENDING" THEN Thrown(o, "only a pending order can be paid")
  ELSE IF o.paymentStatus # "PENDING" THEN Thrown(o, "abnormal payment status")
  ELSE Returned(addDomainEvent([o EXCEPT !.status = "PAID", !.paidAt = now], "OrderPaid"))

pay(o, now) ==
  IF o.status # "PENDING" THEN Thrown(o, "only a pending order can be paid")
  ELSE IF o.paymentStatus # "PENDING" THEN Thrown(o, "abnormal payment status")
  ELSE Returned(addDomainEvent(
         [o EXCEPT !.status = "PAID", !.paymentStatus = "COMPLETED", !.paidAt = now],
         "OrderPaid"))

\* startProcessing that emits an event of its own.
startProcessing_emitsEvent(o, now) ==
  IF o.status # "PAID" THEN Thrown(o, "only a paid order can start processing")
  ELSE Returned(addDomainEvent(
         [o EXCEPT !.status = "PROCESSING", !.shippingStatus = "PREPARING"],
         "OrderProcessing"))

startProcessing(o, now) ==
  IF o.status # "PAID" THEN Thrown(o, "only a paid order can start processing")
  ELSE Returned([o EXCEPT !.status = "PROCESSING", !.shippingStatus = "PREPARING"])

\* ship that also accepts a paid order, skipping PROCESSING.
ship_fromPaid(o, now) ==
  IF o.status \notin {"PAID", "PROCESSING"} THEN Thrown(o, "only a processing order can ship")
  ELSE Returned(addDomainEvent(
         [o EXCEPT !.status = "SHIPPED", !.shippingStatus = "SHIPPED", !.shippedAt = now],
         "OrderShipped"))

ship(o, now) ==
  IF o.status # "PROCESSING" THEN Thrown(o, "only a processing order can ship")
  ELSE Returned(addDomainEvent(
         [o EXCEPT !.status = "SHIPPED", !.shippingStatus = "SHIPPED", !.shippedAt = now],
         "OrderShipped"))

deliver(o, now) ==
  IF o.status # "SHIPPED" THEN Thrown(o, "only a shipped order can be delivered")
  ELSE Returned(addDomainEvent(
         [o EXCEPT !.status = "DELIVERED", !.shippingStatus = "DELIVERED", !.deliveredAt = now],
         "OrderDelivered"))

complete(o, now) ==
  IF o.status # "DELIVERED" THEN Thrown(o, "only a delivered order can complete")
  ELSE Returned([o EXCEPT !.status = "COMPLETED"])

\* cancel that marks the payment REFUNDED whether or not the order was paid.
cancel_refundsAlways(o, now) ==
  IF o.status \in {"SHIPPED", "DELIVERED", "COMPLETED"} THEN Thrown(o, "a shipped order cannot be cancelled")
  ELSE Returned(addDomainEvent(
         [o EXCEPT !.paymentStatus = "REFUNDED", !.status = "CANCELLED"], "OrderCancelled"))

cancel(o, now) ==
  IF o.status \in {"SHIPPED", "DELIVERED", "COMPLETED"} THEN Thrown(o, "a shipped order cannot be cancelled")
  ELSE LET refunded == IF o.status = "PAID" \/ o.status = "PROCESSING"
                       THEN [o EXCEPT !.paymentStatus = "REFUNDED"]
                       ELSE o
       IN Returned(addDomainEvent([refunded EXCEPT !.status = "CANCELLED"], "OrderCancelled"))

\* refund that tests the order status where the code tests the payment
\* status: an order that is not PENDING counts as paid.
refund_testsOrderStatus(o, now) ==
  IF o.status = "PENDING" THEN Thrown(o, "only an order with completed payment can be refunded")
  ELSE Returned([o EXCEPT !.status = "REFUNDED", !.paymentStatus = "REFUNDED"])

\* refund that marks the order REFUNDED before it checks the payment status.
refund_assignsBeforeCheck(o, now) ==
  IF o.paymentStatus # "COMPLETED"
  THEN Thrown([o EXCEPT !.status = "REFUNDED"], "only an order with completed payment can be refunded")
  ELSE Returned([o EXCEPT !.status = "REFUNDED", !.paymentStatus = "REFUNDED"])

refund(o, now) ==
  IF o.paymentStatus # "COMPLETED" THEN Thrown(o, "only an order with completed payment can be refunded")
  ELSE Returned([o EXCEPT !.status = "REFUNDED", !.paymentStatus = "REFUNDED"])

(***************************************************************************)
(* OrderNumber (value-objects/OrderNumber.ts).  The string of fourteen     *)
(* digits is held as its two parts: the date part, a number whose decimal  *)
(* form is the first eight characters, and the sequence part, the number   *)
(* that padStart(6, '0') writes in the last six.                           *)
(***************************************************************************)
\* The date of new Date() at time now, as year, month and day in one number.
DatePart(now) == 20241214 + now

\* Math.floor(Math.random() * 1000000): some of the values it can take.
RandomParts == {0, 123456, 999999}

\* generate() at time now when Math.random() yields randomPart.
generate(now, randomPart) ==
  [datePart |-> DatePart(now), sequencePart |-> randomPart]

\* validate: the value matches /^\d{14}$/, the year having four digits.
OrderNumberValid(value) ==
  /\ value.datePart \in 10000000..99999999
  /\ value.sequencePart \in 0..999999

getDatePart(value) == value.datePart

getSequencePart(value) == value.sequencePart

LifecycleOps == {"pay", "startProcessing", "ship", "deliver", "complete", "cancel", "refund"}

\* The call of one lifecycle method on order o at time now.
Invoke(op, o, now) ==
  CASE op = "pay" -> pay(o, now)
    [] op = "startProcessing" -> startProcessing(o, now)
    [] op = "ship" -> ship(o, now)
    [] op = "deliver" -> deliver(o, now)
    [] op = "complete" -> complete(o, now)
    [] op = "cancel" -> cancel(o, now)
    [] op = "refund" -> refund(o, now)

(***************************************************************************)
(* Product: the enum ProductStatus, and the product ids of the model.      *)
(***************************************************************************)
ProductStatus == {"DRAFT", "ACTIVE", "INACTIVE", "OUT_OF_STOCK", "DISCONTINUED"}

ProductIds == {"p1", "p2"}

(***************************************************************************)
(* Inventory value object (Inventory.ts): quantity and reservedQuantity.   *)
(* minStockLevel is left out: no operation modelled here reads or changes  *)
(* it.  An operation returns the new value or throws.                      *)
(***************************************************************************)
InvOk(inv) == [threw |-> FALSE, inv |-> inv, error |-> ""]

InvThrown(inv, msg) == [threw |-> TRUE, inv |-> inv, error |-> msg]

\* new Inventory(quantity, reservedQuantity): the constructor runs validate().
\* On a throw the caller keeps the value it had (old).
NewInventory(old, quantity, reserved) ==
  IF quantity < 0 THEN InvThrown(old, "stock quantity cannot be negative")
  ELSE IF reserved < 0 THEN InvThrown(old, "reserved stock cannot be negative")
  ELSE IF reserved > quantity THEN InvThrown(old, "reserved stock cannot exceed total stock")
  ELSE InvOk([quantity |-> quantity, reserved |-> reserved])

getAvailableQuantity(inv) == inv.quantity - inv.reserved

isInStock(inv) == getAvailableQuantity(inv) > 0

canReserve(inv, n) == getAvailableQuantity(inv) >= n

reserve(inv, n) ==
  IF n <= 0 THEN InvThrown(inv, "reserve quantity must be positive")
  ELSE IF ~canReserve(inv, n) THEN InvThrown(inv, "insufficient stock, cannot reserve")
  ELSE NewInventory(inv, inv.quantity, inv.reserved + n)

releaseReservation(inv, n) ==
  IF n <= 0 THEN InvThrown(inv, "release quantity must be positive")
  ELSE IF n > inv.reserved THEN InvThrown(inv, "release quantity cannot exceed reserved quantity")
  ELSE NewInventory(inv, inv.quantity, inv.reserved - n)

\* A deduct without its checks.
deduct_unchecked(inv, n) ==
  InvOk([quantity |-> inv.quantity - n, reserved |-> inv.reserved - n])

deduct(inv, n) ==
  IF n <= 0 THEN InvThrown(inv, "deduct quantity must be positive")
  ELSE IF n > inv.reserved THEN InvThrown(inv, "deduct quantity cannot exceed reserved quantity")
  ELSE NewInventory(inv, inv.quantity - n, inv.reserved - n)

addStock(inv, n) ==
  IF n <= 0 THEN InvThrown(inv, "added stock quantity must be positive")
  ELSE NewInventory(inv, inv.quantity + n, inv.reserved)

(***************************************************************************)
(* Product aggregate (Product.ts): status and inventory.  A product is     *)
(* [exists, status, inventory]; exists = FALSE stands for null.            *)
(***************************************************************************)
NoProduct ==
  [exists |-> FALSE, status |-> "DRAFT", inventory |-> [quantity |-> 0, reserved |-> 0]]

ProdOk(p) == [threw |-> FALSE, product |-> p, error |-> ""]

ProdThrown(p, msg) == [threw |-> TRUE, product |-> p, error |-> msg]

updateStatus(p, status) ==
  IF p.status = status THEN ProdOk(p)
  ELSE IF status = "ACTIVE" /\ ~isInStock(p.inventory)
    THEN ProdThrown(p, "a product without stock cannot be activated")
  ELSE ProdOk([p EXCEPT !.status = status])

activate(p) == updateStatus(p, "ACTIVE")

markAsOutOfStock(p) == updateStatus(p, "OUT_OF_STOCK")

reserveInventory(p, n) ==
  IF p.status # "ACTIVE" THEN ProdThrown(p, "only an active product can reserve stock")
  ELSE LET r == reserve(p.inventory, n)
           q == [p EXCEPT !.inventory = r.inv]
       IN IF r.threw THEN ProdThrown(p, r.error)
          ELSE IF ~isInStock(q.inventory) THEN markAsOutOfStock(q)
          ELSE ProdOk(q)

\* releaseInventory that leaves the status as it finds it.
releaseInventory_keepsStatus(p, n) ==
  LET r == releaseReservation(p.inventory, n)
      q == [p EXCEPT !.inventory = r.inv]
  IN IF r.threw THEN ProdThrown(p, r.error) ELSE ProdOk(q)

releaseInventory(p, n) ==
  LET r == releaseReservation(p.inventory, n)
      q == [p EXCEPT !.inventory = r.inv]
  IN IF r.threw THEN ProdThrown(p, r.error)
     ELSE IF q.status = "OUT_OF_STOCK" /\ isInStock(q.inventory) THEN activate(q)
     ELSE ProdOk(q)

deductInventory(p, n) ==
  LET r == deduct(p.inventory, n)
      q == [p EXCEPT !.inventory = r.inv]
  IN IF r.threw THEN ProdThrown(p, r.error)
     ELSE IF ~isInStock(q.inventory) THEN markAsOutOfStock(q)
     ELSE ProdOk(q)

productAddStock(p, n) ==
  LET r == addStock(p.inventory, n)
      q == [p EXCEPT !.inventory = r.inv]
  IN IF r.threw THEN ProdThrown(p, r.error)
     ELSE IF q.status = "OUT_OF_STOCK" /\ isInStock(q.inventory) THEN activate(q)
     ELSE ProdOk(q)

(***************************************************************************)
(* ProductRepository at its interface (MongoProductRepository.ts):         *)
(* findById reads the stored document, save replaces it (findByIdAndUpdate *)
(* with the whole document, upsert, no version in the filter).             *)
(***************************************************************************)
findById(store, id) == store[id]

\* A store that refuses a write that does not raise the reserved quantity
\* stored now: the second of two reservations computed from one read.
saveAccepts_onlyRaisingReserved(stored, doc) ==
  stored.inventory.reserved < doc.inventory.reserved

\* Whether the store takes the write of doc over what it holds now.
saveAccepts(stored, doc) == TRUE

save(store, id, doc) == [store EXCEPT ![id] = doc]

(***************************************************************************)
(* Errors.  An Error carries its message; the validation error of          *)
(* reserveInventoryBatch carries one line per invalid item, and the        *)
(* wrapping error of its catch block carries the message it wraps.         *)
(***************************************************************************)
Err(msg) == [msg |-> msg, cause |-> "", invalid |-> << >>]

NoError == Err("")

RepositoryError == Err("repository call rejected")

\* InventoryService.ts:102, one line "name: reason" per invalid item.
ValidationError(invalidItems) ==
  [msg |-> "inventory validation failed", cause |-> "",
   invalid |-> [k \in 1..Len(invalidItems) |->
                  [productName |-> invalidItems[k].productName,
                   reason |-> invalidItems[k].reason]]]

\* InventoryService.ts:132.
ReservationError(e) ==
  [msg |-> "inventory reservation failed", cause |-> e.msg, invalid |-> << >>]

(***************************************************************************)
(* Requests.  Procs are the concurrent requests.  A cart or a batch is a   *)
(* sequence of lines [productId, quantity] over distinct products (Cart    *)
(* merges lines of one product); the product's name is its id.             *)
(***************************************************************************)
Procs == {"c1", "c2"}

Line(p, n) == [productId |-> p, quantity |-> n]

Lines == {Line(p, n) : p \in ProductIds, n \in 1..MaxQty}

Batches ==
  {<<l>> : l \in Lines} \cup
  {b \in {<<l1, l2>> : l1 \in Lines, l2 \in Lines} : b[1].productId # b[2].productId}

NoCart == [exists |-> FALSE, items |-> << >>, events |-> << >>]

CartOf(items) == [exists |-> TRUE, items |-> items, events |-> << >>]

\* Cart.clear(): no lines left, CartClearedEvent added.
clear(cart) == [cart EXCEPT !.items = << >>, !.events = Append(@, "CartCleared")]

isEmpty(cart) == Len(cart.items) = 0

\* The five amounts of an order or of a response, in hundredths.
Amounts(subtotal, discountAmount, shippingFee, taxAmount, totalAmount, currency) ==
  [subtotal |-> subtotal, discountAmount |-> discountAmount, shippingFee |-> shippingFee,
   taxAmount |-> taxAmount, totalAmount |-> totalAmount, currency |-> currency]

NoAmounts == Amounts(0, 0, 0, 0, 0, "CNY")

NoOrder ==
  [exists |-> FALSE, userId |-> "", lines |-> << >>, items |-> << >>,
   amounts |-> NoAmounts, status |-> "PENDING", paymentStatus |-> "PENDING",
   shippingStatus |-> "PENDING", events |-> << >>]

\* CreateOrderCommand.ts:96-100, the inventory items of a cart.
inventoryItems(cartItems) ==
  [k \in 1..Len(cartItems) |->
     [productId |-> cartItems[k].productId, productName |-> cartItems[k].productId,
      requestedQuantity |-> cartItems[k].quantity]]

\* CreateOrderCommand.ts:239-242, the release items of inventory items.
releaseItems(invItems) ==
  [k \in 1..Len(invItems) |-> Line(invItems[k].productId, invItems[k].requestedQuantity)]

(***************************************************************************)
(* InventoryService, the synchronous parts.                                *)
(***************************************************************************)
\* A validation that reports the first invalid item only.
validateItem_firstOnly(invalidItems, item, product) ==
  IF Len(invalidItems) > 0 THEN invalidItems
  ELSE IF ~product.exists \/ product.status # "ACTIVE"
            \/ getAvailableQuantity(product.inventory) < item.requestedQuantity
    THEN <<[productId |-> item.productId, productName |-> item.productName,
            requestedQuantity |-> item.requestedQuantity, availableQuantity |-> 0,
            reason |-> IF ~product.exists THEN "product does not exist"
                       ELSE IF product.status # "ACTIVE" THEN "product is off the shelf"
                       ELSE "insufficient stock"]>>
  ELSE invalidItems

\* validateInventoryAvailability, the body of the loop for one item: the
\* invalid items after looking at product (InventoryService.ts:49-82).
validateItem(invalidItems, item, product) ==
  LET entry(avail, reason) ==
        [productId |-> item.productId, productName |-> item.productName,
         requestedQuantity |-> item.requestedQuantity,
         availableQuantity |-> avail, reason |-> reason]
      availableStock == getAvailableQuantity(product.inventory)
  IN IF ~product.exists THEN Append(invalidItems, entry(0, "product does not exist"))
     ELSE IF product.status # "ACTIVE" THEN Append(invalidItems, entry(0, "product is off the shelf"))
     ELSE IF availableStock < item.requestedQuantity
       THEN Append(invalidItems, entry(availableStock, "insufficient stock"))
     ELSE invalidItems

\* The string value of a member of the enum ProductStatus (Product.ts:1-7).
StatusValue(status) ==
  CASE status = "DRAFT" -> "draft"
    [] status = "ACTIVE" -> "active"
    [] status = "INACTIVE" -> "inactive"
    [] status = "OUT_OF_STOCK" -> "out_of_stock"
    [] status = "DISCONTINUED" -> "discontinued"

\* validateInventoryAvailability as it is written (InventoryService.ts:37-89):
\* the loop from item k on, over the products findById returns, with the
\* status test of line 61 comparing getStatus(), a value of the enum, with
\* the literal 'ACTIVE'.
RECURSIVE validateLoop(_, _, _, _)
validateLoop(store, items, k, invalidItems) ==
  IF k > Len(items) THEN invalidItems
  ELSE LET item == items[k]
           product == findById(store, item.productId)
           entry(avail, reason) ==
             [productId |-> item.productId, productName |-> item.productName,
              requestedQuantity |-> item.requestedQuantity,
              availableQuantity |-> avail, reason |-> reason]
           availableStock == getAvailableQuantity(product.inventory)
       IN validateLoop(store, items, k + 1,
            IF ~product.exists
              THEN Append(invalidItems, entry(0, "product does not exist"))
            ELSE IF StatusValue(product.status) # "ACTIVE"
              THEN Append(invalidItems, entry(0, "product is off the shelf"))
            ELSE IF availableStock < item.requestedQuantity
              THEN Append(invalidItems, entry(availableStock, "insufficient stock"))
            ELSE invalidItems)

InventoryValidationResult(invalidItems) ==
  [isValid |-> Len(invalidItems) = 0, invalidItems |-> invalidItems]

validateInventoryAvailability(store, items) ==
  InventoryValidationResult(validateLoop(store, items, 1, << >>))

\* reserveInventoryBatch, the reservation loop (InventoryService.ts:117-121)
\* from index k on: the products it leaves, whether it threw, and how many
\* times it called reserveInventory.
RECURSIVE reserveLoop(_, _, _)
reserveLoop(products, items, k) ==
  IF k > Len(products) THEN [products |-> products, threw |-> FALSE, error |-> "", calls |-> 0]
  ELSE LET r == reserveInventory(products[k], items[k].requestedQuantity)
       IN IF r.threw
          THEN [products |-> products, threw |-> TRUE, error |-> r.error, calls |-> 1]
          ELSE LET rest == reserveLoop([products EXCEPT ![k] = r.product], items, k + 1)
               IN [rest EXCEPT !.calls = @ + 1]

(***************************************************************************)
(* Money (value-objects/Money.ts).  An amount is a whole number of         *)
(* hundredths, so every amount has at most two decimals as the constructor *)
(* requires.  The amounts of the model come from whole-yuan unit prices,   *)
(* for which the sums, differences and tenths that the code computes on    *)
(* JavaScript numbers are the exact ones; elsewhere a binary rounding      *)
(* error can leave more than two decimals, which the constructor rejects.  *)
(* A Money whose error is not "" stands for the exception thrown in its    *)
(* place: every operation hands on the first exception of its operands.    *)
(***************************************************************************)
Currency == {"CNY", "USD", "EUR"}

MoneyThrown(msg) == [amount |-> 0, currency |-> "", error |-> msg]

\* new Money(amount, currency), amount in hundredths.
NewMoney(amount, currency) ==
  IF amount < 0 THEN MoneyThrown("amount cannot be negative")
  ELSE IF currency \notin Currency THEN MoneyThrown("unsupported currency")
  ELSE [amount |-> amount, currency |-> currency, error |-> ""]

\* new Money(n, Currency.CNY) for a whole number n.
Yuan(n) == NewMoney(n * 100, "CNY")

zero(currency) == NewMoney(0, currency)

add(a, b) ==
  IF a.error # "" THEN a
  ELSE IF b.error # "" THEN b
  ELSE IF a.currency # b.currency THEN MoneyThrown("cannot operate on different currencies")
  ELSE NewMoney(a.amount + b.amount, a.currency)

subtract(a, b) ==
  IF a.error # "" THEN a
  ELSE IF b.error # "" THEN b
  ELSE IF a.currency # b.currency THEN MoneyThrown("cannot operate on different currencies")
  ELSE IF a.amount - b.amount < 0 THEN MoneyThrown("the result of a subtraction cannot be negative")
  ELSE NewMoney(a.amount - b.amount, a.currency)

\* multiply(factor) for the factor num / den: Math.round(amount * factor *
\* 100) / 100, that is the nearest hundredth, a half rounded up.
multiply(a, num, den) ==
  IF a.error # "" THEN a
  ELSE IF num < 0 THEN MoneyThrown("the factor cannot be negative")
  ELSE NewMoney((2 * a.amount * num + den) \div (2 * den), a.currency)

equals(a, b) == a.amount = b.amount /\ a.currency = b.currency

\* isGreaterThan and isLessThan raise on two currencies.
comparable(a, b) == a.currency = b.currency

isGreaterThan(a, b) == a.amount > b.amount

isLessThan(a, b) == a.amount < b.amount

(***************************************************************************)
(* OrderItem (entities/OrderItem.ts), as CreateOrderCommand creates it:    *)
(* no discount of its own, totalPrice = unitPrice * quantity.              *)
(***************************************************************************)
OrderItemCreate(quantity, unitPrice) ==
  [quantity |-> quantity, unitPrice |-> unitPrice,
   totalPrice |-> subtract(multiply(unitPrice, quantity, 1), zero(unitPrice.currency))]

(***************************************************************************)
(* OrderPricingService.  A pricing whose error is not "" stands for the    *)
(* exception thrown by the call.                                           *)
(***************************************************************************)
RECURSIVE sumTotalPrice(_, _, _)
sumTotalPrice(items, k, subtotal) ==
  IF k > Len(items) THEN subtotal
  ELSE sumTotalPrice(items, k + 1, add(subtotal, items[k].totalPrice))

\* calculateSubtotal, and Order.calculateSubtotalFromItems, which is the
\* same code.
calculateSubtotal(items) ==
  IF Len(items) = 0 THEN MoneyThrown("order items cannot be empty")
  ELSE sumTotalPrice(items, 1, zero(items[1].unitPrice.currency))

NoRule ==
  [type |-> "NONE", value |-> 0, hasMin |-> FALSE, minOrderAmount |-> Yuan(0),
   hasMax |-> FALSE, maxDiscountAmount |-> Yuan(0)]

\* The table of coupons with SAVE10 taking twenty percent.
getDiscountRuleByCoupon_save10TakesTwenty(couponCode) ==
  CASE couponCode = "SAVE10" ->
         [type |-> "PERCENTAGE", value |-> 20, hasMin |-> TRUE, minOrderAmount |-> Yuan(100),
          hasMax |-> TRUE, maxDiscountAmount |-> Yuan(50)]
    [] couponCode = "WELCOME20" ->
         [type |-> "FIXED_AMOUNT", value |-> 20, hasMin |-> TRUE, minOrderAmount |-> Yuan(200),
          hasMax |-> FALSE, maxDiscountAmount |-> Yuan(0)]
    [] couponCode = "FREESHIP" ->
         [type |-> "FREE_SHIPPING", value |-> 0, hasMin |-> TRUE, minOrderAmount |-> Yuan(150),
          hasMax |-> FALSE, maxDiscountAmount |-> Yuan(0)]
    [] OTHER -> NoRule

getDiscountRuleByCoupon(couponCode) ==
  CASE couponCode = "SAVE10" ->
         [type |-> "PERCENTAGE", value |-> 10, hasMin |-> TRUE, minOrderAmount |-> Yuan(100),
          hasMax |-> TRUE, maxDiscountAmount |-> Yuan(50)]
    [] couponCode = "WELCOME20" ->
         [type |-> "FIXED_AMOUNT", value |-> 20, hasMin |-> TRUE, minOrderAmount |-> Yuan(200),
          hasMax |-> FALSE, maxDiscountAmount |-> Yuan(0)]
    [] couponCode = "FREESHIP" ->
         [type |-> "FREE_SHIPPING", value |-> 0, hasMin |-> TRUE, minOrderAmount |-> Yuan(150),
          hasMax |-> FALSE, maxDiscountAmount |-> Yuan(0)]
    [] OTHER -> NoRule

\* applyDiscountRule with the test of the minimum order amount left out.
applyDiscountRule_ignoresMinimum(subtotal, rule) ==
  IF rule.type \notin {"PERCENTAGE", "FIXED_AMOUNT"} THEN zero(subtotal.currency)
  ELSE LET raw == IF rule.type = "PERCENTAGE" THEN multiply(subtotal, rule.value, 100)
                  ELSE NewMoney(rule.value * 100, subtotal.currency)
           capped == IF rule.hasMax /\ isGreaterThan(raw, rule.maxDiscountAmount)
                     THEN rule.maxDiscountAmount ELSE raw
       IN IF rule.hasMax /\ ~comparable(raw, rule.maxDiscountAmount)
          THEN MoneyThrown("cannot compare different currencies")
          ELSE IF isGreaterThan(capped, subtotal) THEN subtotal ELSE capped

applyDiscountRule(subtotal, rule) ==
  IF rule.hasMin /\ ~comparable(subtotal, rule.minOrderAmount)
  THEN MoneyThrown("cannot compare different currencies")
  ELSE IF rule.hasMin /\ isLessThan(subtotal, rule.minOrderAmount) THEN zero(subtotal.currency)
  ELSE IF rule.type \notin {"PERCENTAGE", "FIXED_AMOUNT"} THEN zero(subtotal.currency)
  ELSE LET raw == IF rule.type = "PERCENTAGE" THEN multiply(subtotal, rule.value, 100)
                  ELSE NewMoney(rule.value * 100, subtotal.currency)
           capped == IF rule.hasMax /\ isGreaterThan(raw, rule.maxDiscountAmount)
                     THEN rule.maxDiscountAmount ELSE raw
       IN IF rule.hasMax /\ ~comparable(raw, rule.maxDiscountAmount)
          THEN MoneyThrown("cannot compare different currencies")
          ELSE IF isGreaterThan(capped, subtotal) THEN subtotal ELSE capped

\* couponCode "" is no coupon code.
calculateDiscount(subtotal, couponCode) ==
  IF couponCode = "" THEN zero(subtotal.currency)
  ELSE IF getDiscountRuleByCoupon(couponCode).type = "NONE" THEN zero(subtotal.currency)
  ELSE applyDiscountRule(subtotal, getDiscountRuleByCoupon(couponCode))

FirstTier == {"Beijing", "Shanghai", "Guangzhou", "Shenzhen"}

\* weightMultiplier 0 is a rule that defines none.
getShippingRuleByAddress(province) ==
  IF province \in FirstTier
  THEN [region |-> "first-tier cities", baseRate |-> Yuan(8), hasThreshold |-> TRUE,
        freeShippingThreshold |-> Yuan(199), weightMultiplier |-> 0]
  ELSE [region |-> "other regions", baseRate |-> Yuan(12), hasThreshold |-> TRUE,
        freeShippingThreshold |-> Yuan(299), weightMultiplier |-> 2]

RECURSIVE calculateTotalWeight(_)
calculateTotalWeight(items) ==
  IF Len(items) = 0 THEN 0 ELSE Head(items).quantity + calculateTotalWeight(Tail(items))

calculateShippingFee(items, province, subtotal, discountAmount) ==
  LET shippingRule == getShippingRuleByAddress(province)
      orderAmountAfterDiscount == subtract(subtotal, discountAmount)
      weightCharge ==
        NewMoney(calculateTotalWeight(items) * shippingRule.weightMultiplier * 100,
                 subtotal.currency)
  IN IF orderAmountAfterDiscount.error # "" THEN orderAmountAfterDiscount
     ELSE IF shippingRule.hasThreshold
             /\ ~comparable(orderAmountAfterDiscount, shippingRule.freeShippingThreshold)
       THEN MoneyThrown("cannot compare different currencies")
     ELSE IF shippingRule.hasThreshold
             /\ isGreaterThan(orderAmountAfterDiscount, shippingRule.freeShippingThreshold)
       THEN zero(subtotal.currency)
     ELSE IF shippingRule.weightMultiplier # 0 THEN add(shippingRule.baseRate, weightCharge)
     ELSE shippingRule.baseRate

\* getTaxRuleByAddress returns null for every address.
calculateTax(items, province, subtotal, discountAmount) == zero(subtotal.currency)

\* The first exception among the amounts, in the order they are computed.
FirstError(amounts) ==
  IF \A k \in 1..Len(amounts) : amounts[k].error = "" THEN ""
  ELSE amounts[CHOOSE k \in 1..Len(amounts) :
                 /\ amounts[k].error # ""
                 /\ \A j \in 1..(k - 1) : amounts[j].error = ""].error

Pricing(subtotal, discountAmount, shippingFee, taxAmount, totalAmount) ==
  [subtotal |-> subtotal, discountAmount |-> discountAmount, shippingFee |-> shippingFee,
   taxAmount |-> taxAmount, totalAmount |-> totalAmount,
   error |-> FirstError(<<subtotal, discountAmount, shippingFee, taxAmount, totalAmount>>)]

calculateOrderPricing(items, province, couponCode) ==
  LET subtotal == calculateSubtotal(items)
      discountAmount == IF subtotal.error # "" THEN subtotal
                        ELSE calculateDiscount(subtotal, couponCode)
      shippingFee == IF discountAmount.error # "" THEN discountAmount
                     ELSE calculateShippingFee(items, province, subtotal, discountAmount)
      taxAmount == IF shippingFee.error # "" THEN shippingFee
                   ELSE calculateTax(items, province, subtotal, discountAmount)
      totalAmount == add(add(subtract(subtotal, discountAmount), shippingFee), taxAmount)
  IN Pricing(subtotal, discountAmount, shippingFee, taxAmount, totalAmount)

\* The result of validateOrderPricing, or the exception it throws.
Validation(error, errors) ==
  [threw |-> error # "", error |-> error,
   isValid |-> error = "" /\ Len(errors) = 0,
   errors |-> IF error = "" THEN errors ELSE << >>]

ErrorIf(condition, message) == IF condition THEN <<message>> ELSE << >>

validateOrderPricing(items, pricing) ==
  LET calculatedSubtotal == calculateSubtotal(items)
      calculatedTotal ==
        add(add(subtract(pricing.subtotal, pricing.discountAmount), pricing.shippingFee),
            pricing.taxAmount)
  IN IF calculatedSubtotal.error # "" THEN Validation(calculatedSubtotal.error, << >>)
     ELSE IF calculatedTotal.error # "" THEN Validation(calculatedTotal.error, << >>)
     ELSE IF ~comparable(pricing.discountAmount, pricing.subtotal)
       THEN Validation("cannot compare different currencies", << >>)
     ELSE Validation("",
            ErrorIf(~equals(pricing.subtotal, calculatedSubtotal), "subtotal miscalculated")
            \o ErrorIf(~equals(pricing.totalAmount, calculatedTotal), "total miscalculated")
            \o ErrorIf(isGreaterThan(pricing.discountAmount, pricing.subtotal),
                       "discount cannot exceed the order subtotal")
            \o ErrorIf(pricing.subtotal.amount < 0, "order subtotal cannot be negative")
            \o ErrorIf(pricing.discountAmount.amount < 0, "discount cannot be negative")
            \o ErrorIf(pricing.shippingFee.amount < 0, "shipping fee cannot be negative")
            \o ErrorIf(pricing.taxAmount.amount < 0, "tax cannot be negative"))

\* The result of calculateOptimalPricing, or the exception it throws;
\* bestCoupon "" is undefined.
Optimal(error, bestCoupon, pricing, savings) ==
  [threw |-> error # "", error |-> error, bestCoupon |-> bestCoupon,
   pricing |-> pricing, savings |-> savings]

\* The loop of calculateOptimalPricing from coupon k on.
RECURSIVE tryCoupons(_, _, _, _, _, _, _)
tryCoupons(items, province, availableCoupons, k, bestCoupon, bestPricing, maxSavings) ==
  IF k > Len(availableCoupons) THEN Optimal("", bestCoupon, bestPricing, maxSavings)
  ELSE LET pricingWithCoupon == calculateOrderPricing(items, province, availableCoupons[k])
           savings == subtract(bestPricing.totalAmount, pricingWithCoupon.totalAmount)
       IN IF pricingWithCoupon.error # ""
          THEN Optimal(pricingWithCoupon.error, bestCoupon, bestPricing, maxSavings)
          ELSE IF savings.error # ""
            THEN Optimal(savings.error, bestCoupon, bestPricing, maxSavings)
          ELSE IF isGreaterThan(savings, maxSavings)
            THEN tryCoupons(items, province, availableCoupons, k + 1,
                            availableCoupons[k], pricingWithCoupon, savings)
          ELSE tryCoupons(items, province, availableCoupons, k + 1,
                          bestCoupon, bestPricing, maxSavings)

calculateOptimalPricing(items, province, availableCoupons) ==
  LET bestPricing == calculateOrderPricing(items, province, "")
  IN IF bestPricing.error # ""
     THEN Optimal(bestPricing.error, "", bestPricing, MoneyThrown(bestPricing.error))
     ELSE tryCoupons(items, province, availableCoupons, 1, "", bestPricing,
                     zero(bestPricing.totalAmount.currency))

(***************************************************************************)
(* Order, its amounts (Order.ts): the constructor's validate, create and   *)
(* reconstitute.  props are the items, the five amounts and the statuses.  *)
(***************************************************************************)
OrderProps(items, pricing, status, paymentStatus, shippingStatus) ==
  [items |-> items, subtotal |-> pricing.subtotal, discountAmount |-> pricing.discountAmount,
   shippingFee |-> pricing.shippingFee, taxAmount |-> pricing.taxAmount,
   totalAmount |-> pricing.totalAmount,
   status |-> status, paymentStatus |-> paymentStatus, shippingStatus |-> shippingStatus]

\* A validate that does not compare the total.
validate_skipsTotal(props) ==
  LET calculatedSubtotal == calculateSubtotal(props.items)
  IN IF Len(props.items) = 0 THEN "order must contain at least one item"
     ELSE IF calculatedSubtotal.error # "" THEN calculatedSubtotal.error
     ELSE IF ~equals(props.subtotal, calculatedSubtotal) THEN "order subtotal miscalculated"
     ELSE ""

\* The exception validate throws, "" when it returns.
validate(props) ==
  LET calculatedSubtotal == calculateSubtotal(props.items)
      calculatedTotal ==
        add(add(subtract(props.subtotal, props.discountAmount), props.shippingFee),
            props.taxAmount)
  IN IF Len(props.items) = 0 THEN "order must contain at least one item"
     ELSE IF calculatedSubtotal.error # "" THEN calculatedSubtotal.error
     ELSE IF ~equals(props.subtotal, calculatedSubtotal) THEN "order subtotal miscalculated"
     ELSE IF calculatedTotal.error # "" THEN calculatedTotal.error
     ELSE IF ~equals(props.totalAmount, calculatedTotal) THEN "order total miscalculated"
     ELSE IF props.status = "PAID" /\ props.paymentStatus # "COMPLETED"
       THEN "order status and payment status disagree"
     ELSE IF props.status = "SHIPPED" /\ props.shippingStatus # "SHIPPED"
       THEN "order status and shipping status disagree"
     ELSE ""

\* The Order constructed, or the exception thrown in its place.
Constructed(error, props) == [threw |-> error # "", error |-> error, props |-> props]

\* new Order(props): the constructor runs validate.
NewOrderOf(props) == Constructed(validate(props), props)

\* Order.create with these amounts: subtotal and total are computed here.
createWithAmounts(items, shippingFee, taxAmount, discountAmount) ==
  LET subtotal == calculateSubtotal(items)
      totalAmount == add(add(subtract(subtotal, discountAmount), shippingFee), taxAmount)
      pricing == Pricing(subtotal, discountAmount, shippingFee, taxAmount, totalAmount)
      props == OrderProps(items, pricing, "PENDING", "PENDING", "PENDING")
  IN IF Len(items) = 0 THEN Constructed("order must contain at least one item", props)
     ELSE IF pricing.error # "" THEN Constructed(pricing.error, props)
     ELSE NewOrderOf(props)

reconstitute(props) == NewOrderOf(props)

VARIABLES
  order,         \* the Order aggregate under its lifecycle operations
  clock,         \* new Date()
  lastCall,      \* the last lifecycle call: its name, outcome, and the order before it
  created,       \* the orders created so far: their order numbers, and whether persisted
  productStore,  \* the products collection: product id -> stored document
  cartStore,     \* the carts collection: one cart per request
  orderStore,    \* the orders collection: request -> stored order
  proc,          \* every request: its job, its position and its local variables
  pricingCall,   \* the call of the pricing service or of the Order constructor
  validationCall,\* the call of validateInventoryAvailability and what it returned
  productCall    \* one product aggregate, and the last inventory operation called on it

orderVars == <<order, clock, lastCall, created>>

shopVars == <<productStore, cartStore, orderStore, proc>>

pricingVars == <<pricingCall, validationCall, productCall>>

vars ==
  <<order, clock, lastCall, created, productStore, cartStore, orderStore, proc,
    pricingCall, validationCall, productCall>>

(***************************************************************************)
(* The state before any request: the stored products and carts, and what   *)
(* each request is.  A request that is not a checkout has its batch as an  *)
(* argument.                                                               *)
(***************************************************************************)
Doc(status, quantity, reserved) ==
  [exists |-> TRUE, status |-> status,
   inventory |-> [quantity |-> quantity, reserved |-> reserved]]

InitStores ==
  {[p \in ProductIds |-> IF p = "p1" THEN Doc("ACTIVE", Stock, 0) ELSE d] :
     d \in {NoProduct, Doc("ACTIVE", Stock, 0), Doc("INACTIVE", Stock, Stock)}}

Local(job, items) ==
  [job |-> job, pc |-> "start", items |-> items, i |-> 1,
   cart |-> NoCart, inventoryItems |-> << >>, invalidItems |-> << >>,
   products |-> << >>, product |-> NoProduct,
   order |-> NoOrder, reservedProducts |-> FALSE,
   error |-> NoError, original |-> NoError, releaseError |-> NoError,
   releaseCalls |-> << >>, reserveCalls |-> 0, saveCalls |-> 0,
   before |-> [p \in ProductIds |-> 0],
   storeBefore |-> [p \in ProductIds |-> NoProduct], published |-> << >>,
   response |-> NoAmounts]

Requests ==
  {Local("checkout", << >>)} \cup
  {Local("deduct", b) : b \in Batches} \cup
  {Local("addStock", <<l>>) : l \in Lines} \cup
  {Local("delete", <<Line(p, 1)>>) : p \in ProductIds}

\* The five amounts of a breakdown given in hundredths.
Breakdown(subtotal, discountAmount, shippingFee, taxAmount, totalAmount, currency) ==
  Pricing(NewMoney(subtotal, currency), NewMoney(discountAmount, currency),
          NewMoney(shippingFee, currency), NewMoney(taxAmount, currency),
          NewMoney(totalAmount, currency))

\* A call not made yet, with the items and the address it will be made for.
NoCall(items, province) ==
  [op |-> "none", items |-> items, province |-> province,
   couponCode |-> "", availableCoupons |-> << >>,
   supplied |-> Breakdown(0, 0, 0, 0, 0, "CNY"),
   priced |-> Breakdown(0, 0, 0, 0, 0, "CNY"),
   validated |-> Validation("", << >>),
   optimal |-> Optimal("", "", Breakdown(0, 0, 0, 0, 0, "CNY"), zero("CNY")),
   constructed |-> Constructed("", OrderProps(<< >>, Breakdown(0, 0, 0, 0, 0, "CNY"),
                                              "PENDING", "PENDING", "PENDING"))]

\* A call of validateInventoryAvailability not made yet, with its argument.
NoValidation(items) ==
  [op |-> "none", items |-> items, before |-> [p \in ProductIds |-> NoProduct],
   result |-> InventoryValidationResult(<< >>)]

ValidationIdle == validationCall = NoValidation(<< >>)

\* A product aggregate on which no inventory operation was called yet.
NoProductCall(product) ==
  [op |-> "none", threw |-> FALSE, product |-> product, initialStatus |-> product.status]

ProductIdle == productCall = NoProductCall(NoProduct)

PricingIdle ==
  pricingCall = NoCall(<< >>, "Beijing") /\ ValidationIdle /\ ProductIdle

OrderIdle ==
  /\ order = OrderCreate
  /\ clock = 1
  /\ lastCall = [op |-> "create", threw |-> FALSE, error |-> "", before |-> OrderCreate]
  /\ created = << >>

ShopIdle ==
  /\ productStore = [p \in ProductIds |-> NoProduct]
  /\ cartStore = [c \in Procs |-> NoCart]
  /\ orderStore = [c \in Procs |-> NoOrder]
  /\ proc = [c \in Procs |-> Local("delete", <<Line("p1", 1)>>)]

(***************************************************************************)
(* The lifecycle of one order: any caller, any sequence of operations.     *)
(***************************************************************************)
OrderInit == OrderIdle /\ ShopIdle /\ PricingIdle

Tick ==
  /\ clock < MaxClock
  /\ clock' = clock + 1
  /\ UNCHANGED <<order, lastCall, created>>
  /\ UNCHANGED shopVars
  /\ UNCHANGED pricingVars

Call(op) ==
  LET r == Invoke(op, order, clock) IN
  /\ Len(r.order.events) <= MaxEvents
  /\ order' = r.order
  /\ lastCall' = [op |-> op, threw |-> r.threw, error |-> r.error, before |-> order]
  /\ UNCHANGED <<clock, created>>
  /\ UNCHANGED shopVars
  /\ UNCHANGED pricingVars

MarkEventsAsCommitted ==
  /\ order.events # << >>
  /\ order' = markEventsAsCommitted(order)
  /\ UNCHANGED <<clock, lastCall, created>>
  /\ UNCHANGED shopVars
  /\ UNCHANGED pricingVars

OrderNext ==
  \/ Tick
  \/ \E op \in LifecycleOps : Call(op)
  \/ MarkEventsAsCommitted

SpecOrder == OrderInit /\ [][OrderNext]_vars

(***************************************************************************)
(* CreateOrderCommand.execute, one action per await.                       *)
(***************************************************************************)
Fail(l, e) == [l EXCEPT !.pc = "failed", !.error = e]

reservedOf(store) == [p \in ProductIds |-> store[p].inventory.reserved]

\* Step 1, getCart and the empty check; then the inventory items (step 2)
\* and the call of reserveInventoryBatch (step 3).
GetCart(c) ==
  LET l == proc[c]
      cart == cartStore[c]
  IN /\ l.job = "checkout" /\ l.pc = "start"
     /\ \E ok \in BOOLEAN :
          proc' = [proc EXCEPT ![c] =
            IF ~ok THEN Fail(l, RepositoryError)
            ELSE IF ~cart.exists THEN Fail(l, Err("cart does not exist"))
            ELSE IF isEmpty(cart) THEN Fail(l, Err("cart is empty, cannot create order"))
            ELSE [l EXCEPT !.cart = cart, !.inventoryItems = inventoryItems(cart.items),
                           !.before = reservedOf(productStore),
                           !.storeBefore = productStore,
                           !.pc = "validate", !.i = 1]]
     /\ UNCHANGED <<productStore, cartStore, orderStore>>
     /\ UNCHANGED orderVars
     /\ UNCHANGED pricingVars

\* validateInventoryAvailability: findById of one item and the checks on
\* it; after the last item, the isValid test of reserveInventoryBatch.
ValidateItem(c) ==
  LET l == proc[c]
      item == l.inventoryItems[l.i]
      invalid == validateItem(l.invalidItems, item, findById(productStore, item.productId))
  IN /\ l.pc = "validate"
     /\ \E ok \in BOOLEAN :
          proc' = [proc EXCEPT ![c] =
            IF ~ok THEN Fail(l, RepositoryError)
            ELSE IF l.i < Len(l.inventoryItems)
              THEN [l EXCEPT !.invalidItems = invalid, !.i = @ + 1]
            ELSE IF Len(invalid) # 0
              THEN Fail([l EXCEPT !.invalidItems = invalid], ValidationError(invalid))
            ELSE [l EXCEPT !.pc = "reload", !.i = 1]]
     /\ UNCHANGED <<productStore, cartStore, orderStore>>
     /\ UNCHANGED orderVars
     /\ UNCHANGED pricingVars

\* reserveInventoryBatch: findById of one item of the second loop; after
\* the last one, the reservation loop, which has no await.
ReloadItem(c) ==
  LET l == proc[c]
      item == l.inventoryItems[l.i]
      product == findById(productStore, item.productId)
      products == Append(l.products, product)
      r == reserveLoop(products, l.inventoryItems, 1)
  IN /\ l.pc = "reload"
     /\ \E ok \in BOOLEAN :
          proc' = [proc EXCEPT ![c] =
            IF ~ok THEN Fail(l, RepositoryError)
            ELSE IF ~product.exists
              THEN Fail(l, [Err("product does not exist") EXCEPT !.cause = item.productName])
            ELSE IF l.i < Len(l.inventoryItems)
              THEN [l EXCEPT !.products = products, !.i = @ + 1]
            ELSE IF r.threw
              THEN Fail([l EXCEPT !.products = r.products, !.reserveCalls = r.calls],
                        ReservationError(Err(r.error)))
            ELSE [l EXCEPT !.products = r.products, !.reserveCalls = r.calls,
                           !.pc = "saveProduct", !.i = 1]]
     /\ UNCHANGED <<productStore, cartStore, orderStore>>
     /\ UNCHANGED orderVars
     /\ UNCHANGED pricingVars

\* reserveInventoryBatch: save of one product; after the last one the
\* batch returns to execute.
SaveProduct(c) ==
  LET l == proc[c]
      id == l.inventoryItems[l.i].productId
      doc == l.products[l.i]
      called == [l EXCEPT !.saveCalls = @ + 1]
  IN /\ l.pc = "saveProduct"
     /\ \E ok \in BOOLEAN :
          IF ok /\ saveAccepts(findById(productStore, id), doc)
          THEN /\ productStore' = save(productStore, id, doc)
               /\ proc' = [proc EXCEPT ![c] =
                    IF l.i < Len(l.products) THEN [called EXCEPT !.i = @ + 1]
                    ELSE [called EXCEPT !.pc = "build", !.reservedProducts = TRUE]]
          ELSE /\ proc' = [proc EXCEPT ![c] = Fail(called, ReservationError(RepositoryError))]
               /\ UNCHANGED productStore
     /\ UNCHANGED <<cartStore, orderStore>>
     /\ UNCHANGED orderVars
     /\ UNCHANGED pricingVars

\* The catch block of execute: releaseReservedInventory is called with the
\* inventory items, which maps them and calls releaseReservedInventoryBatch.
BeginRelease(l, e) ==
  [l EXCEPT !.original = e,
            !.releaseCalls = Append(@, releaseItems(l.inventoryItems)),
            !.items = releaseItems(l.inventoryItems), !.i = 1, !.pc = "releaseLoad"]

\* An execute that throws the error of the release when the release threw.
rethrown_releaseErrorFirst(original, releaseError) ==
  IF releaseError # NoError THEN releaseError ELSE original

\* What execute throws once releaseReservedInventory is over: the catch in
\* releaseReservedInventory only logs, then execute rethrows its error.
rethrown(original, releaseError) == original

EndRelease(l, releaseError) ==
  [l EXCEPT !.pc = "failed", !.releaseError = releaseError,
            !.error = rethrown(l.original, releaseError)]

\* The price of a product (Product.getPrice): it is the same throughout.
getPrice(productId) == IF productId = "p1" THEN Yuan(100) ELSE Yuan(199)

\* The shipping province and the coupon code of request c.
shippingProvince(c) == IF c = "c1" THEN "Beijing" ELSE "Sichuan"

couponCodeOf(c) == IF c = "c1" THEN "SAVE10" ELSE "WELCOME20"

\* createOrderItems: one order item per cart line, at the product's price.
\* The cart lines are those read in step 2, which the inventory items
\* repeat one for one.
createOrderItems(cartItems) ==
  [k \in 1..Len(cartItems) |->
     LET item == OrderItemCreate(cartItems[k].requestedQuantity,
                                 getPrice(cartItems[k].productId))
     IN [productId |-> cartItems[k].productId, quantity |-> item.quantity,
         unitPrice |-> item.unitPrice, totalPrice |-> item.totalPrice]]

\* Step 6: the pricing of the order items of request c.
checkoutPricing(c, l) ==
  calculateOrderPricing(createOrderItems(l.inventoryItems), shippingProvince(c), couponCodeOf(c))

\* Step 7 with another total: Order.create is not given the discount.
checkoutOrder_withoutDiscount(c, l) ==
  LET pricing == checkoutPricing(c, l)
  IN createWithAmounts(createOrderItems(l.inventoryItems), pricing.shippingFee,
                       pricing.taxAmount, zero(pricing.discountAmount.currency))

\* Step 7: Order.create with the fee, the tax and the discount of the pricing.
checkoutOrder(c, l) ==
  LET pricing == checkoutPricing(c, l)
  IN createWithAmounts(createOrderItems(l.inventoryItems), pricing.shippingFee,
                       pricing.taxAmount, pricing.discountAmount)

\* The amounts of a pricing as numbers.
AmountsOf(pricing) ==
  Amounts(pricing.subtotal.amount, pricing.discountAmount.amount, pricing.shippingFee.amount,
          pricing.taxAmount.amount, pricing.totalAmount.amount, pricing.totalAmount.currency)

\* The error of steps 4 to 7 for request c, "" when they all return.
buildError(c, l) ==
  IF checkoutPricing(c, l).error # "" THEN checkoutPricing(c, l).error
  ELSE checkoutOrder(c, l).error

\* Order.create for the lines of the cart.
NewOrder(c, l) ==
  LET props == checkoutOrder(c, l).props
  IN [exists |-> TRUE, userId |-> c, lines |-> releaseItems(l.inventoryItems),
      items |-> props.items, amounts |-> AmountsOf(props),
      status |-> props.status, paymentStatus |-> props.paymentStatus,
      shippingStatus |-> props.shippingStatus, events |-> OrderCreate.events]

\* The stored form of an order or a cart: the aggregate without its
\* uncommitted events.
orderDocument(o) == markEventsAsCommitted(o)

cartDocument(cart) == [cart EXCEPT !.events = << >>]

\* Steps 4 to 7: order items, addresses, pricing, Order.create.  None of
\* them awaits a repository; the request's address is valid or not.
BuildOrder(c) ==
  LET l == proc[c]
  IN /\ l.pc = "build"
     /\ \E valid \in BOOLEAN :
          proc' = [proc EXCEPT ![c] =
            IF ~valid THEN BeginRelease(l, Err("invalid address"))
            ELSE IF buildError(c, l) # "" THEN BeginRelease(l, Err(buildError(c, l)))
            ELSE [l EXCEPT !.order = NewOrder(c, l), !.pc = "saveOrder"]]
     /\ UNCHANGED <<productStore, cartStore, orderStore>>
     /\ UNCHANGED orderVars
     /\ UNCHANGED pricingVars

\* Step 8, orderRepository.save; then cart.clear() of step 9.
SaveOrder(c) ==
  LET l == proc[c]
  IN /\ l.pc = "saveOrder"
     /\ \E ok \in BOOLEAN :
          IF ok
          THEN /\ orderStore' = [orderStore EXCEPT ![c] = orderDocument(l.order)]
               /\ proc' = [proc EXCEPT ![c] = [l EXCEPT !.cart = clear(@), !.pc = "saveCart"]]
          ELSE /\ proc' = [proc EXCEPT ![c] = BeginRelease(l, RepositoryError)]
               /\ UNCHANGED orderStore
     /\ UNCHANGED <<productStore, cartStore>>
     /\ UNCHANGED orderVars
     /\ UNCHANGED pricingVars

\* Step 9, cartRepository.save of the cleared cart.
SaveCart(c) ==
  LET l == proc[c]
  IN /\ l.pc = "saveCart"
     /\ \E ok \in BOOLEAN :
          IF ok
          THEN /\ cartStore' = [cartStore EXCEPT ![c] = cartDocument(l.cart)]
               /\ proc' = [proc EXCEPT ![c] = [l EXCEPT !.pc = "publishOrder"]]
          ELSE /\ proc' = [proc EXCEPT ![c] = BeginRelease(l, RepositoryError)]
               /\ UNCHANGED cartStore
     /\ UNCHANGED <<productStore, orderStore>>
     /\ UNCHANGED orderVars
     /\ UNCHANGED pricingVars

\* A publishEvents that marks the order's events committed whether or not
\* publishAll returned.
PublishOrderEvents_commitsOnFailure(c) ==
  LET l == proc[c]
  IN /\ l.pc = "publishOrder"
     /\ \E ok \in BOOLEAN :
          proc' = [proc EXCEPT ![c] =
            IF ok THEN [l EXCEPT !.published = @ \o l.order.events,
                                 !.order = markEventsAsCommitted(@),
                                 !.pc = "publishCart"]
            ELSE BeginRelease([l EXCEPT !.order = markEventsAsCommitted(@)],
                              Err("event handler failed"))]
     /\ UNCHANGED <<productStore, cartStore, orderStore>>
     /\ UNCHANGED orderVars
     /\ UNCHANGED pricingVars

\* Step 10, publishEvents: publishAll of the order's events.
PublishOrderEvents(c) ==
  LET l == proc[c]
  IN /\ l.pc = "publishOrder"
     /\ \E ok \in BOOLEAN :
          proc' = [proc EXCEPT ![c] =
            IF ok THEN [l EXCEPT !.published = @ \o l.order.events,
                                 !.order = markEventsAsCommitted(@),
                                 !.pc = "publishCart"]
            ELSE BeginRelease(l, Err("event handler failed"))]
     /\ UNCHANGED <<productStore, cartStore, orderStore>>
     /\ UNCHANGED orderVars
     /\ UNCHANGED pricingVars

\* Step 10, publishEvents: publishAll of the cart's events; then execute
\* returns its response.
PublishCartEvents(c) ==
  LET l == proc[c]
  IN /\ l.pc = "publishCart"
     /\ \E ok \in BOOLEAN :
          proc' = [proc EXCEPT ![c] =
            IF ok THEN [l EXCEPT !.published = @ \o l.cart.events,
                                 !.cart.events = << >>,
                                 !.response = AmountsOf(checkoutPricing(c, l)),
                                 !.pc = "done"]
            ELSE BeginRelease(l, Err("event handler failed"))]
     /\ UNCHANGED <<productStore, cartStore, orderStore>>
     /\ UNCHANGED orderVars
     /\ UNCHANGED pricingVars

(***************************************************************************)
(* InventoryService.releaseReservedInventoryBatch, called by the catch     *)
(* block of execute: findById of one item, releaseInventory on what it     *)
(* found, save.  Whatever it throws ends the batch and is logged.          *)
(***************************************************************************)
ReleaseLoad(c) ==
  LET l == proc[c]
      item == l.items[l.i]
      product == findById(productStore, item.productId)
      r == releaseInventory(product, item.quantity)
  IN /\ l.pc = "releaseLoad"
     /\ \E ok \in BOOLEAN :
          proc' = [proc EXCEPT ![c] =
            IF ~ok THEN EndRelease(l, RepositoryError)
            ELSE IF ~product.exists
              THEN IF l.i < Len(l.items) THEN [l EXCEPT !.i = @ + 1]
                   ELSE EndRelease(l, NoError)
            ELSE IF r.threw THEN EndRelease(l, Err(r.error))
            ELSE [l EXCEPT !.product = r.product, !.pc = "releaseSave"]]
     /\ UNCHANGED <<productStore, cartStore, orderStore>>
     /\ UNCHANGED orderVars
     /\ UNCHANGED pricingVars

ReleaseSave(c) ==
  LET l == proc[c]
      id == l.items[l.i].productId
  IN /\ l.pc = "releaseSave"
     /\ \E ok \in BOOLEAN :
          IF ok /\ saveAccepts(findById(productStore, id), l.product)
          THEN /\ productStore' = save(productStore, id, l.product)
               /\ proc' = [proc EXCEPT ![c] =
                    IF l.i < Len(l.items) THEN [l EXCEPT !.i = @ + 1, !.pc = "releaseLoad"]
                    ELSE EndRelease(l, NoError)]
          ELSE /\ proc' = [proc EXCEPT ![c] = EndRelease(l, RepositoryError)]
               /\ UNCHANGED productStore
     /\ UNCHANGED <<cartStore, orderStore>>
     /\ UNCHANGED orderVars
     /\ UNCHANGED pricingVars

(***************************************************************************)
(* InventoryService.deductInventoryBatch, a request of its own: the same   *)
(* loop with deductInventory; what it throws reaches its caller.           *)
(***************************************************************************)
DeductLoad(c) ==
  LET l == proc[c]
      item == l.items[l.i]
      product == findById(productStore, item.productId)
      r == deductInventory(product, item.quantity)
  IN /\ l.job = "deduct" /\ l.pc \in {"start", "deductLoad"}
     /\ \E ok \in BOOLEAN :
          proc' = [proc EXCEPT ![c] =
            IF ~ok THEN Fail(l, RepositoryError)
            ELSE IF ~product.exists
              THEN IF l.i < Len(l.items) THEN [l EXCEPT !.i = @ + 1, !.pc = "deductLoad"]
                   ELSE [l EXCEPT !.pc = "done"]
            ELSE IF r.threw THEN Fail(l, Err(r.error))
            ELSE [l EXCEPT !.product = r.product, !.pc = "deductSave"]]
     /\ UNCHANGED <<productStore, cartStore, orderStore>>
     /\ UNCHANGED orderVars
     /\ UNCHANGED pricingVars

DeductSave(c) ==
  LET l == proc[c]
      id == l.items[l.i].productId
  IN /\ l.pc = "deductSave"
     /\ \E ok \in BOOLEAN :
          IF ok /\ saveAccepts(findById(productStore, id), l.product)
          THEN /\ productStore' = save(productStore, id, l.product)
               /\ proc' = [proc EXCEPT ![c] =
                    IF l.i < Len(l.items) THEN [l EXCEPT !.i = @ + 1, !.pc = "deductLoad"]
                    ELSE [l EXCEPT !.pc = "done"]]
          ELSE /\ proc' = [proc EXCEPT ![c] = Fail(l, RepositoryError)]
               /\ UNCHANGED productStore
     /\ UNCHANGED <<cartStore, orderStore>>
     /\ UNCHANGED orderVars
     /\ UNCHANGED pricingVars

(***************************************************************************)
(* Product.addStock on a stored product, and ProductRepository.delete.     *)
(***************************************************************************)
AddStock(c) ==
  LET l == proc[c]
      item == l.items[1]
      product == findById(productStore, item.productId)
      r == productAddStock(product, item.quantity)
  IN /\ l.job = "addStock" /\ l.pc = "start"
     /\ IF product.exists /\ ~r.threw
        THEN /\ productStore' = save(productStore, item.productId, r.product)
             /\ proc' = [proc EXCEPT ![c] = [l EXCEPT !.pc = "done"]]
        ELSE /\ proc' = [proc EXCEPT ![c] =
                  Fail(l, IF product.exists THEN Err(r.error) ELSE Err("product does not exist"))]
             /\ UNCHANGED productStore
     /\ UNCHANGED <<cartStore, orderStore>>
     /\ UNCHANGED orderVars
     /\ UNCHANGED pricingVars

DeleteProduct(c) ==
  LET l == proc[c]
  IN /\ l.job = "delete" /\ l.pc = "start"
     /\ productStore' = [productStore EXCEPT ![l.items[1].productId] = NoProduct]
     /\ proc' = [proc EXCEPT ![c] = [l EXCEPT !.pc = "done"]]
     /\ UNCHANGED <<cartStore, orderStore>>
     /\ UNCHANGED orderVars
     /\ UNCHANGED pricingVars

(***************************************************************************)
(* The shop: concurrent requests over one store.                           *)
(***************************************************************************)
\* The requests are interchangeable: of two initial states that differ only
\* by which request is named c1, the one is kept where c1 comes first, by
\* its job and then by its lines.
JobRank(job) ==
  CASE job = "checkout" -> 1 [] job = "deduct" -> 2 [] job = "addStock" -> 3 [] job = "delete" -> 4

LineRank(l) == (IF l.productId = "p1" THEN 0 ELSE MaxQty) + l.quantity

RECURSIVE BatchRank(_)
BatchRank(b) ==
  IF Len(b) = 0 THEN 0 ELSE LineRank(Head(b)) + (2 * MaxQty + 1) * BatchRank(Tail(b))

RequestRank(request, cart) ==
  IF request.job = "checkout"
  THEN IF cart.exists THEN 1 + BatchRank(cart.items) ELSE 0
  ELSE BatchRank(request.items)

InOrder(r1, cart1, r2, cart2) ==
  \/ JobRank(r1.job) < JobRank(r2.job)
  \/ /\ r1.job = r2.job
     /\ RequestRank(r1, cart1) <= RequestRank(r2, cart2)

Init ==
  /\ OrderIdle
  /\ PricingIdle
  /\ productStore \in InitStores
  /\ proc \in [Procs -> Requests]
  /\ cartStore \in [Procs -> {NoCart, CartOf(<< >>)} \cup {CartOf(b) : b \in Batches}]
  /\ \A c \in Procs : proc[c].job # "checkout" => cartStore[c] = NoCart
  /\ InOrder(proc["c1"], cartStore["c1"], proc["c2"], cartStore["c2"])
  /\ orderStore = [c \in Procs |-> NoOrder]

Next ==
  \E c \in Procs :
    \/ GetCart(c)
    \/ ValidateItem(c)
    \/ ReloadItem(c)
    \/ SaveProduct(c)
    \/ BuildOrder(c)
    \/ SaveOrder(c)
    \/ SaveCart(c)
    \/ PublishOrderEvents(c)
    \/ PublishCartEvents(c)
    \/ ReleaseLoad(c)
    \/ ReleaseSave(c)
    \/ DeductLoad(c)
    \/ DeductSave(c)
    \/ AddStock(c)
    \/ DeleteProduct(c)

Spec == Init /\ [][Next]_vars

(***************************************************************************)
(* Order.create called again and again, and orderRepository.save of the    *)
(* orders it made.  Each order takes its number from OrderNumber.generate  *)
(* at creation; the orders collection has a unique index on orderNumber,   *)
(* so the save of an order whose number another stored order carries is    *)
(* rejected with a duplicate-key error.                                    *)
(***************************************************************************)
CreateNumbered ==
  /\ Len(created) < MaxOrders
  /\ \E randomPart \in RandomParts :
       created' = Append(created, [orderNumber |-> generate(clock, randomPart),
                                   at |-> clock,
                                   persisted |-> FALSE, saveError |-> ""])
  /\ UNCHANGED <<order, clock, lastCall>>
  /\ UNCHANGED shopVars
  /\ UNCHANGED pricingVars

PersistNumbered(k) ==
  /\ ~created[k].persisted /\ created[k].saveError = ""
  /\ created' =
       IF \E j \in 1..Len(created) :
            j # k /\ created[j].persisted /\ created[j].orderNumber = created[k].orderNumber
       THEN [created EXCEPT ![k].saveError = "duplicate key"]
       ELSE [created EXCEPT ![k].persisted = TRUE]
  /\ UNCHANGED <<order, clock, lastCall>>
  /\ UNCHANGED shopVars
  /\ UNCHANGED pricingVars

CreateNext ==
  \/ Tick
  \/ CreateNumbered
  \/ \E k \in 1..Len(created) : PersistNumbered(k)

SpecCreate == OrderInit /\ [][CreateNext]_vars

(***************************************************************************)
(* InventoryService.validateInventoryAvailability called on its own, for   *)
(* any stored products and any batch of one or two items.  The call reads  *)
(* every product with findById, which may reject; then the call throws.    *)
(***************************************************************************)
StoredProducts ==
  {NoProduct} \cup
  {Doc(status, quantity, reserved) :
     status \in ProductStatus, quantity \in 0..MaxQty, reserved \in 0..MaxQty}

ValidationBatches ==
  {<<l>> : l \in Lines} \cup {<<l1, l2>> : l1 \in Lines, l2 \in Lines}

ValidateInit ==
  /\ OrderIdle
  /\ pricingCall = NoCall(<< >>, "Beijing")
  /\ ProductIdle
  /\ productStore \in
       {st \in [ProductIds -> StoredProducts] :
          \A p \in ProductIds : st[p].inventory.reserved <= st[p].inventory.quantity}
  /\ cartStore = [c \in Procs |-> NoCart]
  /\ orderStore = [c \in Procs |-> NoOrder]
  /\ proc = [c \in Procs |-> Local("delete", <<Line("p1", 1)>>)]
  /\ validationCall \in {NoValidation(inventoryItems(b)) : b \in ValidationBatches}

ValidateInventoryAvailability ==
  /\ validationCall.op = "none"
  /\ \E ok \in BOOLEAN :
       validationCall' =
         IF ok
         THEN [validationCall EXCEPT
                 !.op = "returned", !.before = productStore,
                 !.result = validateInventoryAvailability(productStore, validationCall.items)]
         ELSE [validationCall EXCEPT !.op = "threw", !.before = productStore]
  /\ UNCHANGED <<pricingCall, productCall>>
  /\ UNCHANGED shopVars
  /\ UNCHANGED orderVars

ValidateNext == ValidateInventoryAvailability

SpecValidate == ValidateInit /\ [][ValidateNext]_vars

(***************************************************************************)
(* The inventory operations of one Product aggregate, called in any order  *)
(* with any quantity on a product of any status.  An operation that throws *)
(* leaves the aggregate as it was: each of them assigns the inventory only *)
(* after Inventory's own checks, and the status change that follows cannot *)
(* throw (markAsOutOfStock never does, activate is called with stock).     *)
(***************************************************************************)
ProductInit ==
  /\ OrderIdle
  /\ ShopIdle
  /\ pricingCall = NoCall(<< >>, "Beijing")
  /\ ValidationIdle
  /\ productCall \in
       {NoProductCall(p) :
          p \in {d \in StoredProducts : d.exists /\ d.inventory.reserved <= d.inventory.quantity}}

InventoryOps == {"reserveInventory", "releaseInventory", "deductInventory", "addStock"}

\* The call of one inventory operation on product p with quantity n.
InvokeInventory(op, p, n) ==
  CASE op = "reserveInventory" -> reserveInventory(p, n)
    [] op = "releaseInventory" -> releaseInventory(p, n)
    [] op = "deductInventory" -> deductInventory(p, n)
    [] op = "addStock" -> productAddStock(p, n)

InventoryCall(op) ==
  \E n \in 1..MaxQty :
    LET r == InvokeInventory(op, productCall.product, n) IN
    /\ r.product.inventory.quantity <= MaxQty
    /\ productCall' = [productCall EXCEPT !.op = op, !.threw = r.threw, !.product = r.product]
    /\ UNCHANGED <<pricingCall, validationCall>>
    /\ UNCHANGED shopVars
    /\ UNCHANGED orderVars

ProductNext == \E op \in InventoryOps : InventoryCall(op)

SpecProduct == ProductInit /\ [][ProductNext]_vars

(***************************************************************************)
(* UpdateOrderStatusCommand.execute with status CANCELLED, on the order of *)
(* a checkout that has returned; one action per await.  Order has no       *)
(* updateStatus method: the call of line 303 is read as the cancel() that  *)
(* line 316 makes (if it raised instead, no order would ever be cancelled  *)
(* by this command).  The command holds the order repository and the event *)
(* bus and nothing else; event-config.ts registers handlers for the user   *)
(* events and a logging subscriber for OrderCreated, none for              *)
(* OrderCancelled, so publishing it reaches no handler.                    *)
(***************************************************************************)
CancelFail(l, e) == [l EXCEPT !.pc = "cancelFailed", !.error = e]

\* Step 1, orderRepository.findById; steps 2 and 3, order.cancel(reason).
\* before keeps the reserved quantities stored when the command is called.
CancelLoad(c) ==
  LET l == proc[c]
      stored == orderStore[c]
      r == cancel(stored, 0)
  IN /\ l.job = "checkout" /\ l.pc = "done"
     /\ \E ok \in BOOLEAN :
          proc' = [proc EXCEPT ![c] =
            IF ~ok THEN CancelFail(l, RepositoryError)
            ELSE IF ~stored.exists THEN CancelFail(l, Err("order does not exist"))
            ELSE IF r.threw THEN CancelFail(l, Err(r.error))
            ELSE [l EXCEPT !.order = r.order, !.before = reservedOf(productStore),
                           !.pc = "cancelSave"]]
     /\ UNCHANGED <<productStore, cartStore, orderStore>>
     /\ UNCHANGED orderVars
     /\ UNCHANGED pricingVars

\* Step 4, orderRepository.save.
CancelSave(c) ==
  LET l == proc[c]
  IN /\ l.pc = "cancelSave"
     /\ \E ok \in BOOLEAN :
          IF ok
          THEN /\ orderStore' = [orderStore EXCEPT ![c] = orderDocument(l.order)]
               /\ proc' = [proc EXCEPT ![c] = [l EXCEPT !.pc = "cancelPublish"]]
          ELSE /\ proc' = [proc EXCEPT ![c] = CancelFail(l, RepositoryError)]
               /\ UNCHANGED orderStore
     /\ UNCHANGED <<productStore, cartStore>>
     /\ UNCHANGED orderVars
     /\ UNCHANGED pricingVars

\* Step 5, eventBus.publishAll of the order's events (OrderCancelled), then
\* markEventsAsCommitted; execute returns.
CancelPublish(c) ==
  LET l == proc[c]
  IN /\ l.pc = "cancelPublish"
     /\ \E ok \in BOOLEAN :
          proc' = [proc EXCEPT ![c] =
            IF ok THEN [l EXCEPT !.published = @ \o l.order.events,
                                 !.order = markEventsAsCommitted(@),
                                 !.pc = "cancelled"]
            ELSE CancelFail(l, Err("event handler failed"))]
     /\ UNCHANGED <<productStore, cartStore, orderStore>>
     /\ UNCHANGED orderVars
     /\ UNCHANGED pricingVars

\* Checkouts whose orders are cancelled afterwards.
InitCancel == Init /\ \A c \in Procs : proc[c].job = "checkout"

NextCancel ==
  \E c \in Procs :
    \/ GetCart(c)
    \/ ValidateItem(c)
    \/ ReloadItem(c)
    \/ SaveProduct(c)
    \/ BuildOrder(c)
    \/ SaveOrder(c)
    \/ SaveCart(c)
    \/ PublishOrderEvents(c)
    \/ PublishCartEvents(c)
    \/ ReleaseLoad(c)
    \/ ReleaseSave(c)
    \/ CancelLoad(c)
    \/ CancelSave(c)
    \/ CancelPublish(c)

\* Every request that can take a step takes one: Node's event loop runs
\* every pending continuation.
SpecCancel == InitCancel /\ [][NextCancel]_vars /\ WF_vars(NextCancel)

(***************************************************************************)
(* The pricing service and the Order constructor as functions of their     *)
(* arguments: the items and the address are chosen at the start, the other *)
(* arguments with the call, and one call is made.                          *)
(***************************************************************************)
UnitPrices == {5000, 10000, 19900, 29900}

OrderItems(currency) ==
  {OrderItemCreate(quantity, NewMoney(amount, currency)) :
     amount \in UnitPrices, quantity \in 1..MaxQty}

\* Order items of a larger quantity, for orders of a single line.
BulkItems(currency) ==
  {OrderItemCreate(quantity, NewMoney(amount, currency)) :
     amount \in UnitPrices, quantity \in (MaxQty + 1)..MaxBulk}

ItemLists ==
  {<< >>} \cup
  UNION {{<<item>> : item \in OrderItems(currency) \cup BulkItems(currency)} \cup
         {<<item1, item2>> : item1 \in OrderItems(currency), item2 \in OrderItems(currency)} :
           currency \in {"CNY", "USD"}}

Provinces == FirstTier \cup {"Sichuan"}

Coupons == {"SAVE10", "WELCOME20", "FREESHIP", "NOSUCH"}

CouponLists ==
  {<< >>} \cup {<<coupon>> : coupon \in Coupons}
    \cup {<<coupon1, coupon2>> : coupon1 \in Coupons, coupon2 \in Coupons}

CurrencyOf(items) == IF Len(items) = 0 THEN "CNY" ELSE items[1].unitPrice.currency

\* The subtotal of the items in hundredths.
RECURSIVE SumOf(_)
SumOf(items) ==
  IF Len(items) = 0 THEN 0 ELSE Head(items).totalPrice.amount + SumOf(Tail(items))

\* Discounts a caller may pass: none, 20, and one above the subtotal.
SuppliedDiscounts(items) == {0, 2000, SumOf(items) + 100}

\* Breakdowns a caller may pass for the items: each amount right or not.
Breakdowns(items) ==
  {Breakdown(subtotal, discountAmount, shippingFee, taxAmount,
             (IF subtotal + shippingFee + taxAmount >= discountAmount
              THEN subtotal - discountAmount + shippingFee + taxAmount ELSE 0) + excess,
             CurrencyOf(items)) :
     subtotal \in {SumOf(items), SumOf(items) + 100},
     discountAmount \in SuppliedDiscounts(items),
     shippingFee \in {0, 800}, taxAmount \in {0, 500}, excess \in {0, 100}}

PricingInit ==
  /\ OrderIdle
  /\ ShopIdle
  /\ ValidationIdle
  /\ ProductIdle
  /\ pricingCall \in {NoCall(items, province) : items \in ItemLists, province \in Provinces}

CalculateOrderPricing ==
  /\ pricingCall.op = "none"
  /\ \E couponCode \in {""} \cup Coupons :
       pricingCall' = [pricingCall EXCEPT
         !.op = "calculateOrderPricing", !.couponCode = couponCode,
         !.priced = calculateOrderPricing(pricingCall.items, pricingCall.province, couponCode)]
  /\ UNCHANGED <<validationCall, productCall>>
  /\ UNCHANGED orderVars
  /\ UNCHANGED shopVars

ValidateOrderPricing ==
  /\ pricingCall.op = "none"
  /\ \E pricing \in Breakdowns(pricingCall.items) :
       pricingCall' = [pricingCall EXCEPT
         !.op = "validateOrderPricing", !.supplied = pricing,
         !.validated = validateOrderPricing(pricingCall.items, pricing)]
  /\ UNCHANGED <<validationCall, productCall>>
  /\ UNCHANGED orderVars
  /\ UNCHANGED shopVars

CalculateOptimalPricing ==
  /\ pricingCall.op = "none"
  /\ \E availableCoupons \in CouponLists :
       pricingCall' = [pricingCall EXCEPT
         !.op = "calculateOptimalPricing", !.availableCoupons = availableCoupons,
         !.optimal = calculateOptimalPricing(pricingCall.items, pricingCall.province,
                                             availableCoupons)]
  /\ UNCHANGED <<validationCall, productCall>>
  /\ UNCHANGED orderVars
  /\ UNCHANGED shopVars

\* Order.create with a shipping fee, a tax and a discount.
CreateOrder ==
  /\ pricingCall.op = "none"
  /\ \E shippingFee \in {0, 800}, discountAmount \in SuppliedDiscounts(pricingCall.items) :
       LET currency == CurrencyOf(pricingCall.items)
           r == createWithAmounts(pricingCall.items, NewMoney(shippingFee, currency),
                                  zero(currency), NewMoney(discountAmount, currency))
       IN pricingCall' = [pricingCall EXCEPT
            !.op = "create",
            !.supplied = Breakdown(0, discountAmount, shippingFee, 0, 0, currency),
            !.constructed = r]
  /\ UNCHANGED <<validationCall, productCall>>
  /\ UNCHANGED orderVars
  /\ UNCHANGED shopVars

\* Order.reconstitute with the five amounts as stored.
Reconstitute ==
  /\ pricingCall.op = "none"
  /\ \E pricing \in Breakdowns(pricingCall.items) :
       pricingCall' = [pricingCall EXCEPT
         !.op = "reconstitute", !.supplied = pricing,
         !.constructed = reconstitute(OrderProps(pricingCall.items, pricing,
                                                 "PENDING", "PENDING", "PENDING"))]
  /\ UNCHANGED <<validationCall, productCall>>
  /\ UNCHANGED orderVars
  /\ UNCHANGED shopVars

PricingNext ==
  \/ CalculateOrderPricing
  \/ ValidateOrderPricing
  \/ CalculateOptimalPricing
  \/ CreateOrder
  \/ Reconstitute

SpecPricing == PricingInit /\ [][PricingNext]_vars

(***************************************************************************)
(* Properties of the order lifecycle (SpecOrder).                          *)
(***************************************************************************)
\* C7: a lifecycle operation that raises leaves the order as it was: status,
\* paymentStatus, shippingStatus, paidAt, shippedAt, deliveredAt and the
\* uncommitted events.  Stated for every operation on every reachable order
\* at every time.
C7_RejectedOperationChangesNothing ==
  \A op \in LifecycleOps : \A now \in 1..MaxClock :
    LET r == Invoke(op, order, now)
    IN r.threw => r.order = order

\* An operation was just rejected (ship on an order that is not processing)
\* and the order is what it was before the call.
C7_Witness ==
  /\ lastCall.op = "ship" /\ lastCall.threw
  /\ lastCall.before.status = "PENDING"
  /\ order = lastCall.before

ChainOps == {"pay", "startProcessing", "ship", "deliver", "complete"}

Chain == <<"PENDING", "PAID", "PROCESSING", "SHIPPED", "DELIVERED", "COMPLETED">>

ChainIndex(status) == CHOOSE k \in 1..Len(Chain) : Chain[k] = status

OnChain(status) == \E k \in 1..Len(Chain) : Chain[k] = status

\* The chain operation that enters Chain[k + 1] from Chain[k].
ChainOpAt(k) == <<"pay", "startProcessing", "ship", "deliver", "complete">>[k]

\* What C8 says a successful chain operation leaves besides the status.
C8_SideStatus(op, o) ==
  CASE op = "pay" -> o.paymentStatus = "COMPLETED"
    [] op = "startProcessing" -> o.shippingStatus = "PREPARING"
    [] op = "ship" -> o.shippingStatus = "SHIPPED"
    [] op = "deliver" -> o.shippingStatus = "DELIVERED"
    [] op = "complete" -> TRUE

\* C8: a chain operation succeeds only from the status just before its own
\* and sets exactly the next status, with the payment or shipping status that
\* goes with it; and no step of any operation moves the status backwards
\* along the chain or over a status of the chain.
C8_ChainIsWalkedStepByStep ==
  [][/\ \A k \in 1..(Len(Chain) - 1) :
          (lastCall'.op = ChainOpAt(k) /\ ~lastCall'.threw /\ order'.status # order.status)
            => /\ order.status = Chain[k]
               /\ order'.status = Chain[k + 1]
               /\ C8_SideStatus(ChainOpAt(k), order')
     /\ \A op \in ChainOps : \A now \in 1..MaxClock :
          LET r == Invoke(op, order, now)
          IN ~r.threw => /\ OnChain(order.status)
                         /\ ChainIndex(order.status) < Len(Chain)
                         /\ op = ChainOpAt(ChainIndex(order.status))
                         /\ r.order.status = Chain[ChainIndex(order.status) + 1]
     /\ (OnChain(order.status) /\ OnChain(order'.status))
          => ChainIndex(order'.status) \in
               {ChainIndex(order.status), ChainIndex(order.status) + 1}]_vars

\* The whole chain was walked: the last operation, complete, succeeded.
C8_Witness ==
  /\ lastCall.op = "complete" /\ ~lastCall.threw
  /\ lastCall.before.status = "DELIVERED"
  /\ order.status = "COMPLETED" /\ order.shippingStatus = "DELIVERED"

\* C9: a PAID order has paymentStatus COMPLETED and a SHIPPED order has
\* shippingStatus SHIPPED, in every state reached from Order.create.
C9_StatusFieldsAgree ==
  /\ order.status = "PAID" => order.paymentStatus = "COMPLETED"
  /\ order.status = "SHIPPED" => order.shippingStatus = "SHIPPED"

\* An order that was paid, processed and shipped.
C9_Witness ==
  /\ order.status = "SHIPPED" /\ order.shippingStatus = "SHIPPED"
  /\ order.paymentStatus = "COMPLETED" /\ order.paidAt # Undefined

\* C10: once the status is CANCELLED, REFUNDED or COMPLETED no step changes
\* it.
C10_TerminalStatusesStay ==
  [][order.status \in {"CANCELLED", "REFUNDED", "COMPLETED"}
       => order'.status = order.status]_vars

\* C11: in every step that makes the status CANCELLED, the status before
\* the step is PENDING, PAID or PROCESSING.
C11_CancelledOnlyFromOpenStatuses ==
  [][(order'.status = "CANCELLED" /\ order.status # "CANCELLED")
       => order.status \in {"PENDING", "PAID", "PROCESSING"}]_vars

\* C12: refund() succeeds exactly when paymentStatus is COMPLETED, and then
\* leaves status and paymentStatus REFUNDED; an order whose status is
\* REFUNDED was paid; an order that was never paid is refused a refund; and
\* once a refund or the cancelling of a paid order has succeeded, the
\* paymentStatus is REFUNDED, stays REFUNDED, and refund() is refused.
C12_RefundOnlyOfCompletedPayment ==
  [][/\ \A now \in 1..MaxClock :
          LET r == refund(order, now)
          IN /\ ~r.threw <=> order.paymentStatus = "COMPLETED"
             /\ ~r.threw => /\ r.order.status = "REFUNDED"
                            /\ r.order.paymentStatus = "REFUNDED"
             /\ order.paidAt = Undefined => r.threw
     /\ order.status = "REFUNDED" => order.paidAt # Undefined
     /\ (/\ lastCall'.op \in {"refund", "cancel"} /\ ~lastCall'.threw
         /\ order'.status # order.status
         /\ order.paidAt # Undefined /\ order.paymentStatus = "COMPLETED")
          => order'.paymentStatus = "REFUNDED"
     /\ order.paymentStatus = "REFUNDED"
          => /\ order'.paymentStatus = "REFUNDED"
             /\ \A now \in 1..MaxClock : refund(order', now).threw]_vars

\* A paid order was refunded, and the call after it, a second refund, was
\* refused.
C12_Witness ==
  /\ lastCall.op = "refund" /\ lastCall.threw
  /\ lastCall.before.status = "REFUNDED" /\ lastCall.before.paymentStatus = "REFUNDED"
  /\ order.status = "REFUNDED" /\ order.paidAt # Undefined

\* C13: cancel on a SHIPPED, DELIVERED or COMPLETED order is rejected with
\* the error "a shipped order cannot be cancelled" and leaves the status (and
\* the payment status) as it was; cancel on a PENDING, PAID or PROCESSING
\* order sets status CANCELLED, and sets paymentStatus REFUNDED exactly when
\* the status was PAID or PROCESSING: on a PENDING order paymentStatus stays
\* PENDING.  Stated for every reachable order at every time.
C13_CancelByStatus ==
  \A now \in 1..MaxClock :
    LET r == cancel(order, now) IN
    /\ order.status \in {"SHIPPED", "DELIVERED", "COMPLETED"}
         => /\ r.threw /\ r.error = "a shipped order cannot be cancelled"
            /\ r.order.status = order.status
            /\ r.order.paymentStatus = order.paymentStatus
    /\ order.status \in {"PENDING", "PAID", "PROCESSING"}
         => /\ ~r.threw /\ r.order.status = "CANCELLED"
            /\ r.order.paymentStatus = "REFUNDED" <=> order.status \in {"PAID", "PROCESSING"}
            /\ order.status = "PENDING"
                 => /\ order.paymentStatus = "PENDING"
                    /\ r.order.paymentStatus = "PENDING"

\* A pending order was cancelled and its paymentStatus is still PENDING.
C13_Witness ==
  /\ lastCall.op = "cancel" /\ ~lastCall.threw
  /\ lastCall.before.status = "PENDING"
  /\ order.status = "CANCELLED" /\ order.paymentStatus = "PENDING"

OnlyActor(c) == \A d \in Procs \ {c} : proc[d].pc = "start"

\* C1: when a step after the reservation throws, the release batch is called
\* exactly once, with the product id and quantity of every cart line, and
\* execute throws the error of that step, also when the release threw.
C1_ReleaseOnceThenOriginalError ==
  \A c \in Procs :
    LET l == proc[c]
    IN /\ Len(l.releaseCalls) <= 1
       /\ l.pc \in {"releaseLoad", "releaseSave"}
            => l.reservedProducts /\ Len(l.releaseCalls) = 1
       /\ (l.pc = "failed" /\ l.reservedProducts)
            => /\ Len(l.releaseCalls) = 1
               /\ l.releaseCalls[1] =
                    [k \in 1..Len(l.inventoryItems) |->
                       [productId |-> l.inventoryItems[k].productId,
                        quantity |-> l.inventoryItems[k].requestedQuantity]]
               /\ Len(cartStore[c].items) # 0 => l.releaseCalls[1] = cartStore[c].items
               /\ l.original # NoError
               /\ l.error = l.original

\* A checkout failed at the publication of its events, its release of two
\* lines threw, and its caller has the publication's error.
C1_Witness ==
  \E c \in Procs :
    /\ proc[c].pc = "failed" /\ proc[c].reservedProducts
    /\ proc[c].original = Err("event handler failed")
    /\ proc[c].releaseError # NoError
    /\ Len(proc[c].releaseCalls) = 1 /\ Len(proc[c].releaseCalls[1]) = 2
    /\ proc[c].error = Err("event handler failed")

C3_Reason(item) ==
  LET product == productStore[item.productId]
  IN IF ~product.exists THEN "product does not exist"
     ELSE IF product.status # "ACTIVE" THEN "product is off the shelf"
     ELSE IF product.inventory.quantity - product.inventory.reserved < item.requestedQuantity
       THEN "insufficient stock"
     ELSE ""

C3_Invalid(items) == {k \in 1..Len(items) : C3_Reason(items[k]) # ""}

QuantityOf(lines, p) ==
  IF \E k \in 1..Len(lines) : lines[k].productId = p
  THEN lines[CHOOSE k \in 1..Len(lines) : lines[k].productId = p].quantity
  ELSE 0

\* The quantity of product p granted to the stored orders of the requests cs.
RECURSIVE Granted(_, _)
Granted(cs, p) ==
  IF cs = {} THEN 0
  ELSE LET c == CHOOSE d \in cs : TRUE
       IN QuantityOf(orderStore[c].lines, p) + Granted(cs \ {c}, p)

InventoryValid(inv) == 0 <= inv.reserved /\ inv.reserved <= inv.quantity

\* An operation's result r on inventory inv: a valid inventory, or a throw
\* that leaves inv.
C5_Kept(inv, r) == IF r.threw THEN r.inv = inv ELSE InventoryValid(r.inv)

\* C5: every inventory, stored or held in memory by a request, has
\* 0 <= reserved <= total, and each of reserve, release, deduct and addStock,
\* applied to what is stored (what a request loads), for any quantity,
\* either returns such an inventory or throws and leaves it as it was.
C5_ReservedWithinTotal ==
  /\ \A p \in ProductIds :
       LET inv == productStore[p].inventory
       IN /\ InventoryValid(inv)
          /\ \A n \in 0..(MaxQty + 1) :
               /\ C5_Kept(inv, reserve(inv, n))
               /\ C5_Kept(inv, releaseReservation(inv, n))
               /\ C5_Kept(inv, deduct(inv, n))
               /\ C5_Kept(inv, addStock(inv, n))
  /\ \A c \in Procs :
       /\ InventoryValid(proc[c].product.inventory)
       /\ \A k \in 1..Len(proc[c].products) : InventoryValid(proc[c].products[k].inventory)

\* A checkout reserved, failed later, and its release was rejected: by then
\* another request had taken the reserved quantity out of the store.
C5_Witness ==
  \E c \in Procs :
    /\ proc[c].pc = "failed" /\ proc[c].reservedProducts
    /\ proc[c].releaseError = Err("release quantity cannot exceed reserved quantity")
    /\ \A p \in ProductIds : InventoryValid(productStore[p].inventory)

\* Whether the release or deduction of item k of the batch of c can succeed
\* on what is stored.
C6_CanBeProcessed(c, k) ==
  LET item == proc[c].items[k]
      product == productStore[item.productId]
  IN product.exists /\ item.quantity <= product.inventory.reserved

\* C6: when a release or deduct batch has ended on the failure of one item,
\* no later item is left that could have been released or deducted.  Stated
\* for a request that is the only one to have acted.
C6_LaterItemsAreProcessed ==
  \A c \in Procs :
    (/\ OnlyActor(c) /\ proc[c].pc = "failed"
     /\ \/ proc[c].job = "deduct"
        \/ proc[c].job = "checkout" /\ proc[c].releaseError # NoError)
      => \A k \in (proc[c].i + 1)..Len(proc[c].items) : ~C6_CanBeProcessed(c, k)

(***************************************************************************)
(* Properties of the pricing service and the Order amounts (SpecPricing).  *)
(***************************************************************************)
\* The breakdown p reconciles with the items: its subtotal is the sum of
\* their total prices and its total is subtotal - discount + shipping + tax.
C15_Reconciles(items, p) ==
  /\ p.subtotal.amount = SumOf(items)
  /\ p.totalAmount.amount =
       p.subtotal.amount - p.discountAmount.amount + p.shippingFee.amount + p.taxAmount.amount

\* C15: every breakdown calculateOrderPricing returns, and the amounts of
\* every Order that Order.create or Order.reconstitute constructs, have
\* subtotal = sum of the items' totalPrice and total = subtotal - discount +
\* shippingFee + tax; and reconstitute with amounts that do not reconcile
\* throws.
C15_AmountsReconcile ==
  /\ (pricingCall.op = "calculateOrderPricing" /\ pricingCall.priced.error = "")
       => C15_Reconciles(pricingCall.items, pricingCall.priced)
  /\ (pricingCall.op \in {"create", "reconstitute"} /\ ~pricingCall.constructed.threw)
       => C15_Reconciles(pricingCall.items, pricingCall.constructed.props)
  /\ (pricingCall.op = "reconstitute"
        /\ ~C15_Reconciles(pricingCall.items, pricingCall.supplied))
       => pricingCall.constructed.threw

\* reconstitute was called with a total one yuan too high, all else right,
\* and threw for the total.
C15_Witness ==
  /\ pricingCall.op = "reconstitute"
  /\ pricingCall.supplied.subtotal.amount = SumOf(pricingCall.items)
  /\ pricingCall.supplied.discountAmount.amount = 2000
  /\ pricingCall.supplied.totalAmount.amount =
       SumOf(pricingCall.items) - 2000 + pricingCall.supplied.shippingFee.amount
         + pricingCall.supplied.taxAmount.amount + 100
  /\ pricingCall.constructed.threw
  /\ pricingCall.constructed.error = "order total miscalculated"

\* The discount d (in hundredths) that C16 gives for subtotal s under the
\* rule of couponCode.
C16_Expected(s, d, couponCode) ==
  LET rule == getDiscountRuleByCoupon(couponCode)
      max == rule.maxDiscountAmount.amount
  IN IF \/ couponCode = ""
        \/ rule.type \in {"NONE", "FREE_SHIPPING"}
        \/ rule.hasMin /\ s < rule.minOrderAmount.amount
     THEN d = 0
     ELSE IF rule.type = "PERCENTAGE"
       THEN \/ /\ 100 * d - s * rule.value \in -50..50
               /\ rule.hasMax => d <= max
            \/ rule.hasMax /\ d = max /\ s * rule.value >= 100 * max
     ELSE IF rule.hasMax /\ rule.value * 100 > max THEN d = max
     ELSE d = rule.value * 100

\* C16: the discount of every breakdown calculateOrderPricing returns is
\* zero without a coupon code, for a code with no rule, for a FREE_SHIPPING
\* rule and for a subtotal below the rule's minimum; otherwise it is the
\* subtotal times the rate (to the nearest hundredth) for PERCENTAGE or the
\* fixed value for FIXED_AMOUNT, at most the rule's maximum; and it is never
\* negative and never above the subtotal.
C16_DiscountByRule ==
  (pricingCall.op = "calculateOrderPricing" /\ pricingCall.priced.error = "")
    => /\ C16_Expected(pricingCall.priced.subtotal.amount,
                       pricingCall.priced.discountAmount.amount, pricingCall.couponCode)
       /\ 0 <= pricingCall.priced.discountAmount.amount
       /\ pricingCall.priced.discountAmount.amount <= pricingCall.priced.subtotal.amount

\* SAVE10 on a subtotal of 598: ten percent is 59.80, the discount is the
\* maximum of 50.
C16_Witness ==
  /\ pricingCall.op = "calculateOrderPricing" /\ pricingCall.priced.error = ""
  /\ pricingCall.couponCode = "SAVE10"
  /\ pricingCall.priced.subtotal.amount = 59800
  /\ pricingCall.priced.discountAmount.amount = 5000

\* C17: the shipping fee of every breakdown calculateOrderPricing returns
\* is zero exactly when the region's rule has a free-shipping threshold and
\* subtotal - discount is at least the threshold; otherwise it is the base
\* rate plus the weight multiplier (0 where the region defines none) times
\* the sum of the items' quantities.
C17_ShippingFeeByThreshold ==
  (pricingCall.op = "calculateOrderPricing" /\ pricingCall.priced.error = "")
    => LET rule == getShippingRuleByAddress(pricingCall.province)
           afterDiscount == pricingCall.priced.subtotal.amount
                              - pricingCall.priced.discountAmount.amount
           fee == pricingCall.priced.shippingFee.amount
           free == rule.hasThreshold /\ afterDiscount >= rule.freeShippingThreshold.amount
       IN /\ fee = 0 <=> free
          /\ ~free => fee = rule.baseRate.amount
                              + rule.weightMultiplier
                                  * calculateTotalWeight(pricingCall.items) * 100

\* The items of the scenario, two at 50 yuan and one at 100 yuan, in either
\* order.
C18_Items ==
  LET two == OrderItemCreate(2, Yuan(50))
      one == OrderItemCreate(1, Yuan(100))
  IN {<<two, one>>, <<one, two>>}

\* C18: for two items at 50 and one at 100 in CNY, coupon SAVE10 and an
\* address in a first-tier province, calculateOrderPricing returns subtotal
\* 200, discount 20, shipping fee 8, tax 0 and total 188.
C18_ScenarioA ==
  (/\ pricingCall.op = "calculateOrderPricing"
   /\ pricingCall.items \in C18_Items
   /\ pricingCall.couponCode = "SAVE10"
   /\ pricingCall.province \in {"Beijing", "Shanghai", "Guangzhou", "Shenzhen"})
    => pricingCall.priced = Breakdown(20000, 2000, 800, 0, 18800, "CNY")

\* The scenario was priced for an address in Shanghai and came to 188.
C18_Witness ==
  /\ pricingCall.op = "calculateOrderPricing"
  /\ pricingCall.items \in C18_Items
  /\ pricingCall.couponCode = "SAVE10" /\ pricingCall.province = "Shanghai"
  /\ pricingCall.priced.error = ""
  /\ pricingCall.priced.totalAmount.amount = 18800

\* The checks of C19 that the breakdown p fails for the items.
C19_Violated(items, p) ==
  {check \in {"subtotal", "total", "discount"} :
     \/ check = "subtotal" /\ p.subtotal.amount # SumOf(items)
     \/ check = "total"
          /\ p.totalAmount.amount # p.subtotal.amount - p.discountAmount.amount
                                      + p.shippingFee.amount + p.taxAmount.amount
     \/ check = "discount" /\ p.discountAmount.amount > p.subtotal.amount}

\* C19: for every list of items (one item at least) and every supplied
\* breakdown of amounts that are not negative, validateOrderPricing returns:
\* isValid is true exactly when subtotal and total agree with what is
\* recomputed and the discount is at most the subtotal; errors holds one
\* message for each check that fails, the one for the discount when the
\* discount is above the subtotal.
C19_ValidateReturnsAVerdict ==
  (pricingCall.op = "validateOrderPricing" /\ Len(pricingCall.items) > 0)
    => LET violated == C19_Violated(pricingCall.items, pricingCall.supplied)
       IN /\ ~pricingCall.validated.threw
          /\ pricingCall.validated.isValid <=> violated = {}
          /\ Len(pricingCall.validated.errors) = Cardinality(violated)
          /\ "discount" \in violated
               => \E k \in 1..Len(pricingCall.validated.errors) :
                    pricingCall.validated.errors[k] = "discount cannot exceed the order subtotal"

\* The total (in hundredths) of the items shipped to province under
\* couponCode.
C20_Total(items, province, couponCode) ==
  calculateOrderPricing(items, province, couponCode).totalAmount.amount

\* C20: for items and an address that can be priced, and every list of
\* candidate coupons, calculateOptimalPricing returns a pricing whose total
\* is the least of the total without a coupon and the totals under the
\* candidates; the coupon it returns gives that total, and it returns none
\* exactly when no candidate lowers the total; and the savings are the
\* total without a coupon less the returned total.
C20_OptimalIsMinimal ==
  (/\ pricingCall.op = "calculateOptimalPricing"
   /\ calculateOrderPricing(pricingCall.items, pricingCall.province, "").error = "")
    => LET items == pricingCall.items
           province == pricingCall.province
           candidates == {pricingCall.availableCoupons[k] :
                            k \in 1..Len(pricingCall.availableCoupons)}
           plain == C20_Total(items, province, "")
           totals == {plain} \cup {C20_Total(items, province, c) : c \in candidates}
           result == pricingCall.optimal
       IN /\ ~result.threw
          /\ result.pricing.totalAmount.amount \in totals
          /\ \A t \in totals : result.pricing.totalAmount.amount <= t
          /\ result.bestCoupon = "" <=> \A t \in totals : plain <= t
          /\ result.bestCoupon # ""
               => /\ result.bestCoupon \in candidates
                  /\ C20_Total(items, province, result.bestCoupon)
                       = result.pricing.totalAmount.amount
          /\ result.savings.amount = plain - result.pricing.totalAmount.amount

(***************************************************************************)
(* Properties of order numbers (SpecCreate).                               *)
(***************************************************************************)
\* C21: every order number is an 8-digit date followed by a 6-digit number,
\* no two orders created carry the same order number, and no two persisted
\* orders share one.
C21_OrderNumbersUnique ==
  /\ \A k \in 1..Len(created) :
       /\ OrderNumberValid(created[k].orderNumber)
       /\ getDatePart(created[k].orderNumber) = DatePart(created[k].at)
  /\ \A j, k \in 1..Len(created) :
       j # k => created[j].orderNumber # created[k].orderNumber
  /\ \A j, k \in 1..Len(created) :
       (j # k /\ created[j].persisted /\ created[k].persisted)
         => created[j].orderNumber # created[k].orderNumber

(***************************************************************************)
(* Properties of validateInventoryAvailability (SpecValidate).             *)
(***************************************************************************)
\* The first check an item fails against the stored products: "" for none.
C22_Reason(item) ==
  LET product == validationCall.before[item.productId]
  IN IF ~product.exists THEN "product does not exist"
     ELSE IF product.status # "ACTIVE" THEN "product is off the shelf"
     ELSE IF product.inventory.quantity - product.inventory.reserved < item.requestedQuantity
       THEN "insufficient stock"
     ELSE ""

\* The failing items of the call in their order, each with its reason.
C22_Failures ==
  LET items == validationCall.items
      failing == SelectSeq([k \in 1..Len(items) |-> k],
                           LAMBDA k : C22_Reason(items[k]) # "")
  IN [n \in 1..Len(failing) |->
        [productId |-> items[failing[n]].productId,
         reason |-> C22_Reason(items[failing[n]])]]

\* C22: validateInventoryAvailability changes no product, and it returns
\* isValid = true exactly when every requested product exists, is ACTIVE and
\* has quantity - reserved >= the requested quantity; every failing item is
\* in invalidItems exactly once, with the reason of the first check it fails.
C22_ValidationVerdict ==
  validationCall.op = "returned" =>
    LET result == validationCall.result
    IN /\ productStore = validationCall.before
       /\ result.isValid <=>
            \A k \in 1..Len(validationCall.items) : C22_Reason(validationCall.items[k]) = ""
       /\ [n \in 1..Len(result.invalidItems) |->
             [productId |-> result.invalidItems[n].productId,
              reason |-> result.invalidItems[n].reason]] = C22_Failures

(***************************************************************************)
(* Properties of the order of the checkout's steps (Spec).                 *)
(***************************************************************************)
\* What one step of checkout c must respect.
C23_StepInOrder(c) ==
  LET l == proc[c]
      m == proc'[c]
      resolved == l.cart.exists /\ Len(l.inventoryItems) # 0
  IN /\ \* a reservation is computed or written only for a resolved, non-empty cart
        (m.reserveCalls # l.reserveCalls \/ m.saveCalls # l.saveCalls) => resolved
     /\ \* the order is constructed after the batch was reserved
        (m.order.exists /\ ~l.order.exists) => l.reservedProducts
     /\ \* the cart is cleared once the order is persisted, and saved after that
        (isEmpty(m.cart) /\ ~isEmpty(l.cart)) => orderStore'[c].exists
     /\ cartStore'[c] # cartStore[c] => (orderStore[c].exists /\ isEmpty(l.cart))
     /\ \* events are published after the order and the cleared cart were saved
        m.published # l.published =>
          /\ orderStore[c].exists
          /\ cartStore[c].exists /\ isEmpty(cartStore[c])
     /\ \* events are marked committed in the step in which their publication returned
        (m.order.events = << >> /\ l.order.events # << >>) =>
          m.published = l.published \o l.order.events
     /\ (m.cart.events = << >> /\ l.cart.events # << >>) =>
          m.published = l.published \o l.cart.events

\* C23: in every checkout the cart is resolved and non-empty before any
\* inventory is reserved, inventory is reserved before the order is
\* constructed, the order is persisted before the cart is cleared and saved,
\* events are published after both were persisted, and events are marked
\* committed only when their publication returned successfully.
C23_StepsInOrder ==
  [][\A c \in Procs : proc[c].job = "checkout" => C23_StepInOrder(c)]_vars

\* A checkout went through all its steps and published both aggregates' events.
C23_Witness ==
  \E c \in Procs :
    /\ proc[c].job = "checkout" /\ proc[c].pc = "done"
    /\ proc[c].published = <<"OrderCreated", "CartCleared">>
    /\ proc[c].order.events = << >> /\ proc[c].cart.events = << >>
    /\ orderStore[c].exists /\ isEmpty(cartStore[c])

(***************************************************************************)
(* Properties of the order's uncommitted events (SpecOrder).               *)
(***************************************************************************)
\* The events a call of op is to append: one of its kind when it succeeds
\* and is one of pay, ship, deliver and cancel, none otherwise.
C24_Appended(op, threw) ==
  IF threw THEN << >>
  ELSE CASE op = "pay" -> <<"OrderPaid">>
         [] op = "ship" -> <<"OrderShipped">>
         [] op = "deliver" -> <<"OrderDelivered">>
         [] op = "cancel" -> <<"OrderCancelled">>
         [] OTHER -> << >>

\* C24: Order.create leaves exactly one order-created event; each successful
\* pay, ship, deliver and cancel appends exactly one event of its own kind to
\* the uncommitted events; startProcessing, complete, refund and every
\* rejected operation append none; markEventsAsCommitted empties the list.
C24_EventsPerOperation ==
  /\ order.events = <<"OrderCreated">>
  /\ [][/\ \A op \in LifecycleOps :
             (Call(op) => order'.events = order.events \o C24_Appended(op, lastCall'.threw))
         /\ (MarkEventsAsCommitted => order'.events = << >>)]_vars

\* A paid order was cancelled with nothing committed in between: the list
\* holds the three events in the order of the calls.
C24_Witness ==
  /\ lastCall.op = "cancel" /\ ~lastCall.threw
  /\ order.events = <<"OrderCreated", "OrderPaid", "OrderCancelled">>

(***************************************************************************)
(* Properties of the compensation (Spec).                                  *)
(***************************************************************************)
\* Checkout c reserved its whole batch, failed later, and released without
\* a repository failure, while no other request was active.
C25_ReleasedAlone(c) ==
  /\ proc[c].job = "checkout" /\ proc[c].pc = "failed"
  /\ proc[c].reservedProducts
  /\ proc[c].releaseError # RepositoryError
  /\ OnlyActor(c)

\* C25: with no concurrent activity and no repository failure during the
\* release, a checkout that reserved its batch and then failed leaves every
\* product of the cart with the total quantity, the reserved quantity and
\* the status it had before the checkout.
C25_ReleaseRestoresProducts ==
  \A c \in Procs :
    C25_ReleasedAlone(c) =>
      \A k \in 1..Len(proc[c].inventoryItems) :
        LET p == proc[c].inventoryItems[k].productId
        IN /\ productStore[p].inventory.quantity = proc[c].storeBefore[p].inventory.quantity
           /\ productStore[p].inventory.reserved = proc[c].storeBefore[p].inventory.reserved
           /\ productStore[p].status = proc[c].storeBefore[p].status
           /\ productStore[p].exists

\* The checkout had reserved the last available unit of a product, which
\* made it OUT_OF_STOCK, and the release made it ACTIVE again.
C25_Witness ==
  \E c \in Procs :
    /\ C25_ReleasedAlone(c)
    /\ \E k \in 1..Len(proc[c].products) :
         /\ proc[c].products[k].status = "OUT_OF_STOCK"
         /\ productStore[proc[c].inventoryItems[k].productId].status = "ACTIVE"
         /\ proc[c].storeBefore[proc[c].inventoryItems[k].productId].status = "ACTIVE"

RECURSIVE C27_Quantity(_, _, _)
C27_Quantity(items, p, k) ==
  IF k > Len(items) THEN 0
  ELSE (IF items[k].productId = p THEN items[k].requestedQuantity ELSE 0)
       + C27_Quantity(items, p, k + 1)

\* What the checkouts that succeeded reserved of product p.
C27_ReservedBySucceeded(p) ==
  LET of(c) == IF proc[c].pc = "done" THEN C27_Quantity(proc[c].inventoryItems, p, 1) ELSE 0
  IN of("c1") + of("c2")

\* No repository call of request c was rejected.
C27_NoRepositoryFailure(c) ==
  /\ proc[c].error \notin {RepositoryError, ReservationError(RepositoryError)}
  /\ proc[c].releaseError # RepositoryError

C28_OffSaleStaysOffSale ==
  productCall.initialStatus \in {"DRAFT", "INACTIVE", "DISCONTINUED"}
    => productCall.product.status # "ACTIVE"

(***************************************************************************)
(* Properties of coupons and the total (SpecPricing).                      *)
(***************************************************************************)
\* C29: whenever the items and the address can be priced, the total of
\* calculateOrderPricing with a coupon code is at most the total without
\* one, and calculateOptimalPricing with one candidate coupon does not
\* throw (its savings subtraction has a result that is not negative).
C29_CouponNeverRaisesTotal ==
  LET items == pricingCall.items
      province == pricingCall.province
      plain == calculateOrderPricing(items, province, "")
  IN plain.error = "" =>
       /\ (pricingCall.op = "calculateOrderPricing" /\ pricingCall.couponCode # "")
            => /\ pricingCall.priced.error = ""
               /\ pricingCall.priced.totalAmount.amount <= plain.totalAmount.amount
       /\ (pricingCall.op = "calculateOptimalPricing" /\ Len(pricingCall.availableCoupons) = 1)
            => /\ ~pricingCall.optimal.threw
               /\ pricingCall.optimal.savings.amount >= 0

(***************************************************************************)
(* Properties of a successful checkout (Spec).                             *)
(***************************************************************************)
\* Checkout c returned its response while the other request had not started.
C30_SucceededAlone(c) ==
  proc[c].job = "checkout" /\ proc[c].pc = "done" /\ OnlyActor(c)

\* C30: after a checkout that returns, with no concurrent activity, one new
\* order is persisted, PENDING in its three statuses, with one item per cart
\* line carrying the line's product and quantity; each of these products
\* has that quantity more reserved and its total unchanged; the persisted
\* cart is empty; and the response's amounts are the persisted order's.
C30_SuccessfulCheckout ==
  \A c \in Procs :
    C30_SucceededAlone(c) =>
      LET o == orderStore[c]
          lines == proc[c].inventoryItems
      IN /\ o.exists
         /\ \A d \in Procs \ {c} : ~orderStore[d].exists
         /\ o.status = "PENDING" /\ o.paymentStatus = "PENDING"
         /\ o.shippingStatus = "PENDING"
         /\ Len(o.items) = Len(lines)
         /\ \A k \in 1..Len(lines) :
              /\ o.items[k].productId = lines[k].productId
              /\ o.items[k].quantity = lines[k].requestedQuantity
              /\ LET p == lines[k].productId
                     before == proc[c].storeBefore[p].inventory
                 IN /\ productStore[p].inventory.reserved
                         = before.reserved + lines[k].requestedQuantity
                    /\ productStore[p].inventory.quantity = before.quantity
         /\ cartStore[c].exists /\ isEmpty(cartStore[c])
         /\ proc[c].response = o.amounts

\* A checkout returned alone for an order with a discount.
C30_Witness ==
  \E c \in Procs :
    /\ C30_SucceededAlone(c)
    /\ orderStore[c].exists /\ Len(orderStore[c].items) > 0
    /\ orderStore[c].amounts.discountAmount > 0
    /\ proc[c].response.totalAmount
         = orderStore[c].amounts.subtotal - orderStore[c].amounts.discountAmount
           + orderStore[c].amounts.shippingFee

=============================================================================
